---- MODULE Spec2Model ----
(***************************************************************************)
(* Mask-parameterised grid transformation engine (Transformer) of the ARC  *)
(* DSL.  Arrays are records carrying their shape; cells are indexed from 0 *)
(* as in numpy.  Each operator of the Transformer is a pure operator that  *)
(* yields an outcome (a returned array or a raised exception); one action  *)
(* per operator models a caller invoking it on its grid and mask stack.    *)
(***************************************************************************)
EXTENDS Integers, Sequences, FiniteSets, TLC

VARIABLES caller_grid, caller_selection, tie, orig, pc, call, ret, ncalls, kept,
          new_states, infos, state, done, info, step_return, episode

vars == <<caller_grid, caller_selection, tie, orig, pc, call, ret, ncalls, kept,
          new_states, infos, state, done, info, step_return, episode>>

\* the fields of the environment, what its last call returned and the
\* episode as its caller sees it (the target drawn, the calls of step made)
env_vars == <<new_states, infos, state, done, info, step_return, episode>>

\* ------------------------------------------------------------------ bounds
MaxSel == 2
MaxShift == 2
MaxCalls == 4
MaxSteps == 3

\* the colours of the single painted cell of a sparse input grid
InkColours == {5}

\* ------------------------------------------------------------ numpy arrays
Cells2(R, C) == (0 .. R - 1) \X (0 .. C - 1)

Cells3(N, R, C) == (0 .. N - 1) \X (0 .. R - 1) \X (0 .. C - 1)

\* row-major rank of an index triple in an array of shape (., R, C)
Key(t, R, C) == (t[1] * R + t[2]) * C + t[3]

\* selection[i]: the cells of layer l that are true
LayerCells(selection, l) ==
    {p \in Cells2(selection.rows, selection.cols) : selection.cell[<<l, p[1], p[2]>>]}

\* grid_3d[i]: layer l of a stack as a 2D array
Layer(a, l) ==
    [rows |-> a.rows, cols |-> a.cols,
     cell |-> [p \in Cells2(a.rows, a.cols) |-> a.cell[<<l, p[1], p[2]>>]]]

\* np.where(mask): the index triples of the true cells, in row-major order
where(mask) ==
    LET S == {t \in DOMAIN mask.cell : mask.cell[t]}
    IN  [i \in 1 .. Cardinality(S) |->
            CHOOSE t \in S :
                Cardinality({u \in S : Key(u, mask.rows, mask.cols)
                                        < Key(t, mask.rows, mask.cols)}) = i - 1]

\* a[mask]: the values at the true cells of mask, in row-major order
take(a, mask) ==
    LET w == where(mask)
    IN  [i \in 1 .. Len(w) |-> a.cell[w[i]]]

\* a[mask] = vals: the k-th true cell of mask (row-major) receives vals[k]
put(a, mask, vals) ==
    LET S == {t \in DOMAIN mask.cell : mask.cell[t]}
        rank(t) == 1 + Cardinality({u \in S : Key(u, mask.rows, mask.cols)
                                              < Key(t, mask.rows, mask.cols)})
    IN  [a EXCEPT !.cell = [t \in DOMAIN a.cell |->
                               IF mask.cell[t] THEN vals[rank(t)] ELSE a.cell[t]]]

\* a[mask] = v for a scalar v
fill(a, mask, v) ==
    [a EXCEPT !.cell = [t \in DOMAIN a.cell |-> IF mask.cell[t] THEN v ELSE a.cell[t]]]

\* np.flip(a, axis) for axis 1 (rows) or 2 (columns) of a stack
flip(a, axis) ==
    [a EXCEPT !.cell = [t \in DOMAIN a.cell |->
        IF axis = 1 THEN a.cell[<<t[1], a.rows - 1 - t[2], t[3]>>]
                    ELSE a.cell[<<t[1], t[2], a.cols - 1 - t[3]>>]]]

\* np.transpose(a, (0, 2, 1)): swap the row and column axes of every layer
transpose(a) ==
    [n |-> a.n, rows |-> a.cols, cols |-> a.rows,
     cell |-> [t \in Cells3(a.n, a.cols, a.rows) |-> a.cell[<<t[1], t[3], t[2]>>]]]

\* rot90 turning clockwise
rot90_clockwise(m, k) ==
    LET kk == k % 4
    IN  CASE kk = 0 -> m
          [] kk = 2 -> flip(flip(m, 1), 2)
          [] kk = 3 -> transpose(flip(m, 2))
          [] OTHER  -> flip(transpose(m), 2)

\* np.rot90(m, k, axes=(1, 2))
rot90(m, k) ==
    LET kk == k % 4
    IN  CASE kk = 0 -> m
          [] kk = 2 -> flip(flip(m, 1), 2)
          [] kk = 1 -> transpose(flip(m, 2))
          [] OTHER  -> flip(transpose(m), 2)

\* ---------------------------------------------------------------- outcomes
NoValue == [n |-> 0, rows |-> 0, cols |-> 0, cell |-> <<>>]

Return(v) == [raised |-> "none", value |-> v]

Raise(e) == [raised |-> e, value |-> NoValue]

\* a returned value that is a stack of layers, as opposed to a 2D grid
Is3D(v) == "n" \in DOMAIN v

None == [none |-> TRUE]

\* ARC_Env.__init__: the environment before its first reset
Constructed ==
    /\ new_states = None
    /\ infos = None
    /\ state = None
    /\ done = FALSE
    /\ info = None
    /\ step_return = None
    /\ episode = None

\* -------------------------------------------------- shared geometry helpers
\* Layer Stacker: replicate the grid once per mask layer
create_grid3d(grid, selection) ==
    [n |-> selection.n, rows |-> grid.rows, cols |-> grid.cols,
     cell |-> [t \in Cells3(selection.n, grid.rows, grid.cols) |->
                  grid.cell[<<t[2], t[3]>>]]]

SetMin(S) == CHOOSE x \in S : \A y \in S : x <= y

SetMax(S) == CHOOSE x \in S : \A y \in S : x >= y

\* Region Finder: per layer the minimal enclosing rectangle, as inclusive
\* bounds; an empty layer has the empty range
RectBounds(selection, l) ==
    LET S == LayerCells(selection, l)
    IN  IF S = {} THEN [rmin |-> 0, rmax |-> -1, cmin |-> 0, cmax |-> -1]
        ELSE [rmin |-> SetMin({p[1] : p \in S}), rmax |-> SetMax({p[1] : p \in S}),
              cmin |-> SetMin({p[2] : p \in S}), cmax |-> SetMax({p[2] : p \in S})]

find_bounding_rectangle(selection) ==
    [selection EXCEPT !.cell = [t \in DOMAIN selection.cell |->
        LET b == RectBounds(selection, t[1])
        IN  b.rmin <= t[2] /\ t[2] <= b.rmax /\ b.cmin <= t[3] /\ t[3] <= b.cmax]]

\* Region Finder: the narrower span is widened to the longer one, the extra
\* cells split evenly; the odd cell goes to the side selected by tie
SquareBounds(selection, l) ==
    LET b == RectBounds(selection, l)
        h == b.rmax - b.rmin + 1
        w == b.cmax - b.cmin + 1
        side == IF h >= w THEN h ELSE w
        r0 == b.rmin - ((side - h + tie) \div 2)
        c0 == b.cmin - ((side - w + tie) \div 2)
    IN  IF LayerCells(selection, l) = {}
        THEN [rmin |-> 0, rmax |-> -1, cmin |-> 0, cmax |-> -1]
        ELSE [rmin |-> r0, rmax |-> r0 + side - 1, cmin |-> c0, cmax |-> c0 + side - 1]

find_bounding_square(selection) ==
    [selection EXCEPT !.cell = [t \in DOMAIN selection.cell |->
        LET b == SquareBounds(selection, t[1])
        IN  b.rmin <= t[2] /\ t[2] <= b.rmax /\ b.cmin <= t[3] /\ t[3] <= b.cmax]]

\* ------------------------------------------------------ geometric operators
\* flipv with the values taken through the unflipped rectangle
flipv_global(grid, selection) ==
    LET grid_3d == create_grid3d(grid, selection)
        bounding_rectangle == find_bounding_rectangle(selection)
    IN  Return(put(grid_3d, bounding_rectangle,
                   take(flip(grid_3d, 1), bounding_rectangle)))

flipv(grid, selection) ==
    LET grid_3d == create_grid3d(grid, selection)
        bounding_rectangle == find_bounding_rectangle(selection)
        flipped_bounding_rectangle == flip(bounding_rectangle, 1)
    IN  Return(put(grid_3d, bounding_rectangle,
                   take(flip(grid_3d, 1), flipped_bounding_rectangle)))

\* fliph with the values taken through the unflipped rectangle
fliph_global(grid, selection) ==
    LET grid_3d == create_grid3d(grid, selection)
        bounding_rectangle == find_bounding_rectangle(selection)
    IN  Return(put(grid_3d, bounding_rectangle,
                   take(flip(grid_3d, 2), bounding_rectangle)))

fliph(grid, selection) ==
    LET grid_3d == create_grid3d(grid, selection)
        bounding_rectangle == find_bounding_rectangle(selection)
        flipped_bounding_rectangle == flip(bounding_rectangle, 2)
    IN  Return(put(grid_3d, bounding_rectangle,
                   take(flip(grid_3d, 2), flipped_bounding_rectangle)))

\* ------------------------------------------------------- parameter checks
\* check_integer: callers pass Python ints, so only the range test can fail;
\* a failed test raises Warning and the return False after it is never reached
check_integer(value, minimum, maximum) ==
    IF value < minimum \/ value > maximum THEN Raise("Warning") ELSE Return(TRUE)

check_color(color) == check_integer(color, 0, 200)

check_num_rotations(num_rotations) == check_integer(num_rotations, 1, 3)

\* ------------------------------------------------------------------- rotate
\* rotate writing cell by cell into the array it is still reading from
RECURSIVE rotate_from(_, _, _, _, _)
rotate_from(a, w, rw, k, i) ==
    IF i > Len(w) THEN a
    ELSE rotate_from([a EXCEPT !.cell[w[i]] = rot90(a, k).cell[rw[i]]], w, rw, k, i + 1)

rotate_inplace(grid, selection, num_rotations) ==
    LET grid_3d == create_grid3d(grid, selection)
        chk == check_num_rotations(num_rotations)
        bounding_square == find_bounding_square(selection)
        rotated_bounding_square == rot90(bounding_square, num_rotations)
    IN  IF chk.raised # "none" THEN Raise(chk.raised)
        ELSE Return(rotate_from(grid_3d, where(bounding_square),
                                where(rotated_bounding_square), num_rotations, 1))

rotate(grid, selection, num_rotations) ==
    LET grid_3d == create_grid3d(grid, selection)
        chk == check_num_rotations(num_rotations)
        bounding_square == find_bounding_square(selection)
        rotated_bounding_square == rot90(bounding_square, num_rotations)
    IN  IF chk.raised # "none" THEN Raise(chk.raised)
        ELSE IF chk.value = FALSE THEN Return(grid_3d)
        ELSE Return(put(grid_3d, bounding_square,
                        take(rot90(grid_3d, num_rotations), rotated_bounding_square)))

\* ---------------------------------------------------------- fill operators
color(grid, selection, color_selected) ==
    LET chk == check_color(color_selected)
        grid_3d == create_grid3d(grid, selection)
    IN  IF chk.raised # "none" THEN Raise(chk.raised)
        ELSE IF chk.value = FALSE THEN Raise("UnboundLocalError")
        ELSE Return(fill(grid_3d, selection, color_selected))

\* the cells of a layer that are not selected and touch the grid border
BorderFree(S, R, C) ==
    {p \in Cells2(R, C) \ S : p[1] = 0 \/ p[1] = R - 1 \/ p[2] = 0 \/ p[2] = C - 1}

\* adjacency that counts the diagonal neighbours too
Adjacent8(p, q) ==
    /\ p # q
    /\ p[1] - q[1] \in {-1, 0, 1}
    /\ p[2] - q[2] \in {-1, 0, 1}

Adjacent(p, q) ==
    \/ p[1] = q[1] /\ (p[2] = q[2] + 1 \/ q[2] = p[2] + 1)
    \/ p[2] = q[2] /\ (p[1] = q[1] + 1 \/ q[1] = p[1] + 1)

\* the non-selected cells joined to the border by horizontal and vertical steps
RECURSIVE Outside(_, _, _, _)
Outside(S, R, C, seen) ==
    LET more == seen \cup {p \in Cells2(R, C) \ S : \E q \in seen : Adjacent(p, q)}
    IN  IF more = seen THEN seen ELSE Outside(S, R, C, more)

\* scipy.ndimage.binary_fill_holes applied to every layer of the stack
binary_fill_holes(selection) ==
    [selection EXCEPT !.cell = [t \in DOMAIN selection.cell |->
        LET S == LayerCells(selection, t[1])
        IN  <<t[2], t[3]>> \notin
                Outside(S, selection.rows, selection.cols,
                        BorderFree(S, selection.rows, selection.cols))]]

\* a & ~b on boolean stacks
and_not(a, b) == [a EXCEPT !.cell = [t \in DOMAIN a.cell |-> a.cell[t] /\ ~b.cell[t]]]

fill_with_color(grid, selection, fill_color) ==
    LET grid_3d == create_grid3d(grid, selection)
        chk == check_color(fill_color)
        filled_masks == binary_fill_holes(selection)
        new_masks == and_not(filled_masks, selection)
    IN  IF chk.raised # "none" THEN Raise(chk.raised)
        ELSE IF chk.value = FALSE THEN Return(grid_3d)
        ELSE Return(fill(grid_3d, new_masks, fill_color))

\* fill_bounding_rectangle_with_color painting the selected cells too
fill_bounding_rectangle_whole(grid, selection, c) ==
    LET chk == check_color(c)
    IN  IF chk.raised # "none" THEN Raise(chk.raised)
        ELSE Return(fill(create_grid3d(grid, selection),
                         find_bounding_rectangle(selection), c))

fill_bounding_rectangle_with_color(grid, selection, c) ==
    LET chk == check_color(c)
        grid_3d == create_grid3d(grid, selection)
        bounding_rectangle == find_bounding_rectangle(selection)
    IN  IF chk.raised # "none" THEN Raise(chk.raised)
        ELSE IF chk.value = FALSE THEN Return(grid)
        ELSE Return(fill(grid_3d, and_not(bounding_rectangle, selection), c))

fill_bounding_square_with_color(grid, selection, c) ==
    LET chk == check_color(c)
        grid_3d == create_grid3d(grid, selection)
        bounding_square == find_bounding_square(selection)
    IN  IF chk.raised # "none" THEN Raise(chk.raised)
        ELSE IF chk.value = FALSE THEN Return(grid)
        ELSE Return(fill(grid_3d, and_not(bounding_square, selection), c))

\* --------------------------------------------------- displacement operators
\* numpy integer indexing: an index i < 0 on an axis of length n means i + n
norm(i, n) == IF i < 0 THEN i + n ELSE i

NormIdx(a, t) == <<norm(t[1], a.n), norm(t[2], a.rows), norm(t[3], a.cols)>>

IdxOK(a, t) ==
    /\ -a.n <= t[1] /\ t[1] < a.n
    /\ -a.rows <= t[2] /\ t[2] < a.rows
    /\ -a.cols <= t[3] /\ t[3] < a.cols

RECURSIVE assign_from(_, _, _, _)
assign_from(a, idx, vals, i) ==
    IF i > Len(idx) THEN a
    ELSE assign_from([a EXCEPT !.cell[NormIdx(a, idx[i])] = vals[i]], idx, vals, i + 1)

\* a[L, R, C] = vals with index arrays: written in order, the last write wins
assign_at(a, idx, vals) ==
    IF \E i \in 1 .. Len(idx) : ~IdxOK(a, idx[i]) THEN Raise("IndexError")
    ELSE Return(assign_from(a, idx, vals, 1))

RECURSIVE add_from(_, _, _, _)
add_from(a, idx, vals, i) ==
    IF i > Len(idx) THEN a
    ELSE add_from([a EXCEPT !.cell[NormIdx(a, idx[i])] = @ + vals[i]], idx, vals, i + 1)

\* np.add.at(a, (L, R, C), vals): unbuffered, every index adds its value
add_at(a, idx, vals) ==
    IF \E i \in 1 .. Len(idx) : ~IdxOK(a, idx[i]) THEN Raise("IndexError")
    ELSE Return(add_from(a, idx, vals, 1))

\* a[L, R, C] = v for a scalar v
clear_at(a, idx, v) ==
    [a EXCEPT !.cell = [t \in DOMAIN a.cell |->
        IF \E i \in 1 .. Len(idx) : idx[i] = t THEN v ELSE a.cell[t]]]

\* a destination whose column is shift_x itself, not the cell's column moved
shifted_to_column(t, shift_x, shift_y) == <<t[1], t[2] + shift_y, shift_x>>

\* the shifted index triple of a selected cell
shifted(t, shift_x, shift_y) == <<t[1], t[2] + shift_y, t[3] + shift_x>>

\* valid_mask without the lower bounds
valid_mask_upper_only(new_row, new_col, grid_3d) ==
    new_row < grid_3d.rows /\ new_col < grid_3d.cols

\* valid_mask: the shifted coordinates that lie inside the grid
valid_mask(new_row, new_col, grid_3d) ==
    /\ new_row >= 0 /\ new_row < grid_3d.rows
    /\ new_col >= 0 /\ new_col < grid_3d.cols

\* the selected index triples that survive the filter, in np.where order
surviving(grid_3d, selection, shift_x, shift_y) ==
    LET keep(t) == valid_mask(t[2] + shift_y, t[3] + shift_x, grid_3d)
    IN  SelectSeq(where(selection), keep)

\* copy_paste that clears the sources it copied
copy_paste_moving(grid, selection, shift_x, shift_y) ==
    LET grid_3d == create_grid3d(grid, selection)
        old == surviving(grid_3d, selection, shift_x, shift_y)
        new == [i \in 1 .. Len(old) |-> shifted(old[i], shift_x, shift_y)]
        values == [i \in 1 .. Len(old) |-> grid_3d.cell[old[i]]]
    IN  assign_at(clear_at(grid_3d, old, 0), new, values)

\* copy_paste reading each source when it is written, not before the writes
RECURSIVE paste_from(_, _, _, _)
paste_from(a, old, new, i) ==
    IF i > Len(old) THEN a
    ELSE paste_from([a EXCEPT !.cell[new[i]] = a.cell[old[i]]], old, new, i + 1)

copy_paste_late_read(grid, selection, shift_x, shift_y) ==
    LET grid_3d == create_grid3d(grid, selection)
        old == surviving(grid_3d, selection, shift_x, shift_y)
        new == [i \in 1 .. Len(old) |-> shifted(old[i], shift_x, shift_y)]
    IN  Return(paste_from(grid_3d, old, new, 1))

copy_paste(grid, selection, shift_x, shift_y) ==
    LET grid_3d == create_grid3d(grid, selection)
        old == surviving(grid_3d, selection, shift_x, shift_y)
        new == [i \in 1 .. Len(old) |-> shifted(old[i], shift_x, shift_y)]
        values == [i \in 1 .. Len(old) |-> grid_3d.cell[old[i]]]
    IN  assign_at(grid_3d, new, values)

\* copy_sum that overwrites the destination
copy_sum_overwrite(grid, selection, shift_x, shift_y) ==
    LET grid_3d == create_grid3d(grid, selection)
        old == surviving(grid_3d, selection, shift_x, shift_y)
        new == [i \in 1 .. Len(old) |-> shifted(old[i], shift_x, shift_y)]
        values == [i \in 1 .. Len(old) |-> grid_3d.cell[old[i]]]
    IN  assign_at(grid_3d, new, values)

\* copy_sum that clamps the sums to the palette
copy_sum_clamped(grid, selection, shift_x, shift_y) ==
    LET grid_3d == create_grid3d(grid, selection)
        old == surviving(grid_3d, selection, shift_x, shift_y)
        new == [i \in 1 .. Len(old) |-> shifted(old[i], shift_x, shift_y)]
        values == [i \in 1 .. Len(old) |-> grid_3d.cell[old[i]]]
        summed == add_at(grid_3d, new, values)
    IN  [summed EXCEPT !.value.cell =
            [t \in DOMAIN summed.value.cell |->
                IF summed.value.cell[t] > 9 THEN 9 ELSE summed.value.cell[t]]]

copy_sum(grid, selection, shift_x, shift_y) ==
    LET grid_3d == create_grid3d(grid, selection)
        old == surviving(grid_3d, selection, shift_x, shift_y)
        new == [i \in 1 .. Len(old) |-> shifted(old[i], shift_x, shift_y)]
        values == [i \in 1 .. Len(old) |-> grid_3d.cell[old[i]]]
    IN  add_at(grid_3d, new, values)

\* cut_paste that reads the moved values after it cleared the selected cells
cut_paste_late_read(grid, selection, shift_x, shift_y) ==
    LET grid_3d == create_grid3d(grid, selection)
        old == surviving(grid_3d, selection, shift_x, shift_y)
        new == [i \in 1 .. Len(old) |-> shifted(old[i], shift_x, shift_y)]
        cleared == clear_at(grid_3d, where(selection), 0)
        values == [i \in 1 .. Len(old) |-> cleared.cell[old[i]]]
    IN  assign_at(cleared, new, values)

\* cut_paste that clears only the cells whose destination is in bounds
cut_paste_clear_moved(grid, selection, shift_x, shift_y) ==
    LET grid_3d == create_grid3d(grid, selection)
        old == surviving(grid_3d, selection, shift_x, shift_y)
        new == [i \in 1 .. Len(old) |-> shifted(old[i], shift_x, shift_y)]
        values == [i \in 1 .. Len(old) |-> grid_3d.cell[old[i]]]
    IN  assign_at(clear_at(grid_3d, old, 0), new, values)

cut_paste(grid, selection, shift_x, shift_y) ==
    LET grid_3d == create_grid3d(grid, selection)
        old == surviving(grid_3d, selection, shift_x, shift_y)
        new == [i \in 1 .. Len(old) |-> shifted(old[i], shift_x, shift_y)]
        values == [i \in 1 .. Len(old) |-> grid_3d.cell[old[i]]]
    IN  assign_at(clear_at(grid_3d, where(selection), 0), new, values)

\* cut_sum that adds the moved values before it clears the selected cells
cut_sum_clear_last(grid, selection, shift_x, shift_y) ==
    LET grid_3d == create_grid3d(grid, selection)
        old == surviving(grid_3d, selection, shift_x, shift_y)
        new == [i \in 1 .. Len(old) |-> shifted(old[i], shift_x, shift_y)]
        values == [i \in 1 .. Len(old) |-> grid_3d.cell[old[i]]]
        added == add_at(grid_3d, new, values)
    IN  IF added.raised # "none" THEN added
        ELSE Return(clear_at(added.value, where(selection), 0))

cut_sum(grid, selection, shift_x, shift_y) ==
    LET grid_3d == create_grid3d(grid, selection)
        old == surviving(grid_3d, selection, shift_x, shift_y)
        new == [i \in 1 .. Len(old) |-> shifted(old[i], shift_x, shift_y)]
        values == [i \in 1 .. Len(old) |-> grid_3d.cell[old[i]]]
    IN  add_at(clear_at(grid_3d, where(selection), 0), new, values)

\* ------------------------------------------------------ extension operators
\* np.zeros((n, rows, cols))
zeros(N, R, C) ==
    [n |-> N, rows |-> R, cols |-> C, cell |-> [t \in Cells3(N, R, C) |-> 0]]

\* a[:, r0:r0+R, c0:c0+C]: the same block of every layer
block(a, r0, c0, R, C) ==
    [n |-> a.n, rows |-> R, cols |-> C,
     cell |-> [t \in Cells3(a.n, R, C) |-> a.cell[<<t[1], r0 + t[2], c0 + t[3]>>]]]

\* a[:, r0:r0+b.rows, c0:c0+b.cols] = b
assign_block(a, r0, c0, b) ==
    [a EXCEPT !.cell = [t \in DOMAIN a.cell |->
        IF r0 <= t[2] /\ t[2] < r0 + b.rows /\ c0 <= t[3] /\ t[3] < c0 + b.cols
        THEN b.cell[<<t[1], t[2] - r0, t[3] - c0>>]
        ELSE a.cell[t]]]

\* ~mask
invert(mask) == [mask EXCEPT !.cell = [t \in DOMAIN mask.cell |-> ~mask.cell[t]]]

\* mirror_horizontally keeping the unselected cells of the mirrored half
mirror_horizontally_whole(grid, selection) ==
    LET grid_3d == create_grid3d(grid, selection)
        left == assign_block(zeros(selection.n, selection.rows, selection.cols * 2),
                             0, 0, grid_3d)
    IN  IF selection.cols > 15 THEN Return(grid)
        ELSE Return(assign_block(left, 0, selection.cols, flip(grid_3d, 2)))

mirror_horizontally(grid, selection) ==
    LET d == selection.n
        rows == selection.rows
        cols == selection.cols
        grid_3d == create_grid3d(grid, selection)
        left == assign_block(zeros(d, rows, cols * 2), 0, 0, grid_3d)
        both == assign_block(left, 0, cols, flip(grid_3d, 2))
        flipped_selection == flip(selection, 2)
        right == fill(block(both, 0, cols, rows, cols), invert(flipped_selection), 0)
    IN  IF cols > 15 THEN Return(grid)
        ELSE Return(assign_block(both, 0, cols, right))

\* mirror_vertically without the test of the extent
mirror_vertically_unchecked(grid, selection) ==
    LET grid_3d == create_grid3d(grid, selection)
        top == assign_block(zeros(selection.n, selection.rows * 2, selection.cols),
                            0, 0, grid_3d)
        both == assign_block(top, selection.rows, 0, flip(grid_3d, 1))
        bottom == fill(block(both, selection.rows, 0, selection.rows, selection.cols),
                       invert(flip(selection, 1)), 0)
    IN  Return(assign_block(both, selection.rows, 0, bottom))

mirror_vertically(grid, selection) ==
    LET d == selection.n
        rows == selection.rows
        cols == selection.cols
        grid_3d == create_grid3d(grid, selection)
        top == assign_block(zeros(d, rows * 2, cols), 0, 0, grid_3d)
        both == assign_block(top, rows, 0, flip(grid_3d, 1))
        flipped_selection == flip(selection, 1)
        bottom == fill(block(both, rows, 0, rows, cols), invert(flipped_selection), 0)
    IN  IF rows > 15 THEN Return(grid)
        ELSE Return(assign_block(both, rows, 0, bottom))

duplicate_horizontally(grid, selection) ==
    LET d == selection.n
        rows == selection.rows
        cols == selection.cols
        grid_3d == create_grid3d(grid, selection)
        left == assign_block(zeros(d, rows, cols * 2), 0, 0, grid_3d)
        right == put(block(left, 0, cols, rows, cols), selection, take(grid_3d, selection))
    IN  IF cols > 15 THEN Return(grid)
        ELSE Return(assign_block(left, 0, cols, right))

\* duplicate_vertically copying the selection mirrored top to bottom
duplicate_vertically_flipped(grid, selection) ==
    LET grid_3d == create_grid3d(grid, selection)
        top == assign_block(zeros(selection.n, selection.rows * 2, selection.cols),
                            0, 0, grid_3d)
        bottom == put(block(top, selection.rows, 0, selection.rows, selection.cols),
                      flip(selection, 1), take(grid_3d, selection))
    IN  IF selection.rows > 15 THEN Return(grid)
        ELSE Return(assign_block(top, selection.rows, 0, bottom))

duplicate_vertically(grid, selection) ==
    LET d == selection.n
        rows == selection.rows
        cols == selection.cols
        grid_3d == create_grid3d(grid, selection)
        top == assign_block(zeros(d, rows * 2, cols), 0, 0, grid_3d)
        bottom == put(block(top, rows, 0, rows, cols), selection, take(grid_3d, selection))
    IN  IF rows > 15 THEN Return(grid)
        ELSE Return(assign_block(top, rows, 0, bottom))

\* ---------------------------------------------------------- tiling operators
\* a // b rounding down
floor_div(a, b) == a \div b

\* np.ceil(a / b) for integers a and b > 0
ceil_div(a, b) == -((-a) \div b)

\* np.expand_dims(layer, axis=0): a 2D array as a stack of one layer
expand_dims(layer) ==
    [n |-> 1, rows |-> layer.rows, cols |-> layer.cols,
     cell |-> [t \in Cells3(1, layer.rows, layer.cols) |-> layer.cell[<<t[2], t[3]>>]]]

\* a[idx] = layer
set_layer(a, idx, layer) ==
    [a EXCEPT !.cell = [t \in DOMAIN a.cell |->
        IF t[1] = idx THEN layer.cell[<<t[2], t[3]>>] ELSE a.cell[t]]]

\* np.where(rows_with_one[idx])[0]: the rows of layer idx with a selected cell
rows_with_one(selection, idx) == {p[1] : p \in LayerCells(selection, idx)}

first_rows(selection, idx) ==
    IF rows_with_one(selection, idx) = {} THEN -1
    ELSE SetMin(rows_with_one(selection, idx))

last_rows(selection, idx) ==
    IF rows_with_one(selection, idx) = {} THEN -1
    ELSE SetMax(rows_with_one(selection, idx))

selection_height(selection, idx) ==
    last_rows(selection, idx) - first_rows(selection, idx) + 1

factor_up(selection, idx) ==
    ceil_div(first_rows(selection, idx), selection_height(selection, idx))

factor_down(selection, idx) ==
    ceil_div(selection.rows - last_rows(selection, idx) - 1,
             selection_height(selection, idx))

columns_with_one(selection, idx) == {p[2] : p \in LayerCells(selection, idx)}

first_cols(selection, idx) ==
    IF columns_with_one(selection, idx) = {} THEN -1
    ELSE SetMin(columns_with_one(selection, idx))

last_cols(selection, idx) ==
    IF columns_with_one(selection, idx) = {} THEN -1
    ELSE SetMax(columns_with_one(selection, idx))

selection_width(selection, idx) ==
    last_cols(selection, idx) - first_cols(selection, idx) + 1

factor_left(selection, idx) ==
    ceil_div(first_cols(selection, idx), selection_width(selection, idx))

factor_right(selection, idx) ==
    ceil_div(selection.cols - last_cols(selection, idx) - 1,
             selection_width(selection, idx))

\* for i in range(factor): grid_layer_3d = self.copy_paste(grid_layer_3d, ...)
\* with the shift (i+1) * step; the Layer Stacker is handed the working
\* stack of one layer and stacks that layer
RECURSIVE paste_repeatedly(_, _, _, _, _, _)
paste_repeatedly(out, selection_layer_3d, step_x, step_y, i, factor) ==
    IF i >= factor \/ out.raised # "none" THEN out
    ELSE paste_repeatedly(copy_paste(Layer(out.value, 0), selection_layer_3d,
                                     (i + 1) * step_x, (i + 1) * step_y),
                          selection_layer_3d, step_x, step_y, i + 1, factor)

\* the loop over the masks ended by the first mask that selects nothing
RECURSIVE copy_paste_vertically_until_empty(_, _, _)
copy_paste_vertically_until_empty(final_transformation, selection, idx) ==
    IF idx >= selection.n \/ LayerCells(selection, idx) = {}
    THEN Return(final_transformation)
    ELSE LET grid_layer_3d == expand_dims(Layer(final_transformation, idx))
             selection_layer_3d == expand_dims(Layer(selection, idx))
             up == paste_repeatedly(Return(grid_layer_3d), selection_layer_3d,
                                    0, -selection_height(selection, idx),
                                    0, factor_up(selection, idx))
             down == paste_repeatedly(up, selection_layer_3d,
                                      0, selection_height(selection, idx),
                                      0, factor_down(selection, idx))
         IN  IF down.raised # "none" THEN down
             ELSE copy_paste_vertically_until_empty(
                      set_layer(final_transformation, idx, Layer(down.value, 0)),
                      selection, idx + 1)

\* the loop over the masks, from mask idx on
RECURSIVE copy_paste_vertically_from(_, _, _)
copy_paste_vertically_from(final_transformation, selection, idx) ==
    IF idx >= selection.n THEN Return(final_transformation)
    ELSE IF selection_height(selection, idx) <= 0
    THEN copy_paste_vertically_from(final_transformation, selection, idx + 1)
    ELSE LET grid_layer_3d == expand_dims(Layer(final_transformation, idx))
             selection_layer_3d == expand_dims(Layer(selection, idx))
             up == paste_repeatedly(Return(grid_layer_3d), selection_layer_3d,
                                    0, -selection_height(selection, idx),
                                    0, factor_up(selection, idx))
             down == paste_repeatedly(up, selection_layer_3d,
                                      0, selection_height(selection, idx),
                                      0, factor_down(selection, idx))
         IN  IF down.raised # "none" THEN down
             ELSE copy_paste_vertically_from(
                      set_layer(final_transformation, idx, Layer(down.value, 0)),
                      selection, idx + 1)

copy_paste_vertically(grid, selection) ==
    copy_paste_vertically_from(create_grid3d(grid, selection), selection, 0)

RECURSIVE copy_paste_horizontally_from(_, _, _)
copy_paste_horizontally_from(final_transformation, selection, idx) ==
    IF idx >= selection.n THEN Return(final_transformation)
    ELSE IF selection_width(selection, idx) <= 0
    THEN copy_paste_horizontally_from(final_transformation, selection, idx + 1)
    ELSE LET grid_layer_3d == expand_dims(Layer(final_transformation, idx))
             selection_layer_3d == expand_dims(Layer(selection, idx))
             left == paste_repeatedly(Return(grid_layer_3d), selection_layer_3d,
                                      -selection_width(selection, idx), 0,
                                      0, factor_left(selection, idx))
             right == paste_repeatedly(left, selection_layer_3d,
                                       selection_width(selection, idx), 0,
                                       0, factor_right(selection, idx))
         IN  IF right.raised # "none" THEN right
             ELSE copy_paste_horizontally_from(
                      set_layer(final_transformation, idx, Layer(right.value, 0)),
                      selection, idx + 1)

copy_paste_horizontally(grid, selection) ==
    copy_paste_horizontally_from(create_grid3d(grid, selection), selection, 0)

\* --------------------------------------------------------------------- crop
\* crop that blanks the cells outside the selection
crop_selection(grid, selection) ==
    Return(fill(create_grid3d(grid, selection), invert(selection), -1))

crop(grid, selection) ==
    LET grid_3d == create_grid3d(grid, selection)
        bounding_rectangle == find_bounding_rectangle(selection)
    IN  Return(fill(grid_3d, invert(bounding_rectangle), -1))

\* ---------------------------------------------------------- diagonal mirrors
\* grid_3d[i, min_row:max_row+1, min_col:max_col+1] as a stack of one layer
square_of(grid_3d, i, b) ==
    block(expand_dims(Layer(grid_3d, i)), b.rmin, b.cmin,
          b.rmax - b.rmin + 1, b.cmax - b.cmin + 1)

\* grid_3d[i, min_row:max_row+1, min_col:max_col+1] = mirrored; a value of
\* another shape cannot be broadcast into the block
assign_square(grid_3d, i, b, mirrored) ==
    IF mirrored.rows # b.rmax - b.rmin + 1 \/ mirrored.cols # b.cmax - b.cmin + 1
    THEN Raise("ValueError")
    ELSE Return(set_layer(grid_3d, i,
                          Layer(assign_block(expand_dims(Layer(grid_3d, i)),
                                             b.rmin, b.cmin, mirrored), 0)))

\* the transposition written cell by cell through a view of the block itself
RECURSIVE transpose_through_view(_, _, _, _)
transpose_through_view(grid_3d, i, b, k) ==
    LET side == b.rmax - b.rmin + 1
        r == k \div side
        c == k % side
    IN  IF k >= side * side THEN grid_3d
        ELSE transpose_through_view(
                 [grid_3d EXCEPT !.cell[<<i, b.rmin + r, b.cmin + c>>] =
                                     grid_3d.cell[<<i, b.rmin + c, b.cmin + r>>]],
                 i, b, k + 1)

\* flip_main_diagonal whose write reads the cells it has already overwritten
RECURSIVE flip_main_diagonal_overlapping(_, _, _)
flip_main_diagonal_overlapping(grid_3d, bounding_square, i) ==
    IF i >= grid_3d.n THEN Return(grid_3d)
    ELSE IF LayerCells(bounding_square, i) = {}
    THEN flip_main_diagonal_overlapping(grid_3d, bounding_square, i + 1)
    ELSE LET b == RectBounds(bounding_square, i)
         IN  IF b.rmax - b.rmin # b.cmax - b.cmin THEN Raise("ValueError")
             ELSE flip_main_diagonal_overlapping(
                      transpose_through_view(grid_3d, i, b, 0), bounding_square, i + 1)

\* the loop over the layers, from layer i on
RECURSIVE flip_main_diagonal_from(_, _, _)
flip_main_diagonal_from(grid_3d, bounding_square, i) ==
    IF i >= grid_3d.n THEN Return(grid_3d)
    ELSE IF LayerCells(bounding_square, i) = {}
    THEN flip_main_diagonal_from(grid_3d, bounding_square, i + 1)
    ELSE LET b == RectBounds(bounding_square, i)
             square == square_of(grid_3d, i, b)
             mirrored == transpose(square)
             out == assign_square(grid_3d, i, b, mirrored)
         IN  IF out.raised # "none" THEN out
             ELSE flip_main_diagonal_from(out.value, bounding_square, i + 1)

flip_main_diagonal(grid, selection) ==
    flip_main_diagonal_from(create_grid3d(grid, selection),
                            find_bounding_square(selection), 0)

RECURSIVE flip_anti_diagonal_from(_, _, _)
flip_anti_diagonal_from(grid_3d, bounding_square, i) ==
    IF i >= grid_3d.n THEN Return(grid_3d)
    ELSE IF LayerCells(bounding_square, i) = {}
    THEN flip_anti_diagonal_from(grid_3d, bounding_square, i + 1)
    ELSE LET b == RectBounds(bounding_square, i)
             square == square_of(grid_3d, i, b)
             mirrored == flip(rot90(square, 1), 2)
             out == assign_square(grid_3d, i, b, mirrored)
         IN  IF out.raised # "none" THEN out
             ELSE flip_anti_diagonal_from(out.value, bounding_square, i + 1)

flip_anti_diagonal(grid, selection) ==
    flip_anti_diagonal_from(create_grid3d(grid, selection),
                            find_bounding_square(selection), 0)

\* ------------------------------------------------------------ scale operators
\* np.repeat(a, scale_factor, axis) for axis 1 (rows) or 2 (columns)
repeat(a, scale_factor, axis) ==
    IF axis = 1
    THEN [n |-> a.n, rows |-> a.rows * scale_factor, cols |-> a.cols,
          cell |-> [t \in Cells3(a.n, a.rows * scale_factor, a.cols) |->
                       a.cell[<<t[1], t[2] \div scale_factor, t[3]>>]]]
    ELSE [n |-> a.n, rows |-> a.rows, cols |-> a.cols * scale_factor,
          cell |-> [t \in Cells3(a.n, a.rows, a.cols * scale_factor) |->
                       a.cell[<<t[1], t[2], t[3] \div scale_factor>>]]]

\* a float that is the quotient of two integers; 0/0 is nan
Quotient(a, b) == [num |-> a, den |-> b]

IsNaN(x) == x.den = 0

\* x + k for an integer k
plus(x, k) == Quotient(x.num + k * x.den, x.den)

\* x - y
minus(x, y) == Quotient(x.num * y.den - y.num * x.den, x.den * y.den)

\* x >= k and x <= k for an integer k; a comparison with nan is false
at_least(x, k) == x.den > 0 /\ x.num >= k * x.den

at_most(x, k) == x.den > 0 /\ x.num <= k * x.den

\* int(x): truncation towards zero
int(x) == IF x.num >= 0 THEN x.num \div x.den ELSE -((-x.num) \div x.den)

min(a, b) == IF a <= b THEN a ELSE b

max(a, b) == IF a >= b THEN a ELSE b

RECURSIVE position_sum(_, _)
position_sum(S, axis) ==
    IF S = {} THEN 0
    ELSE LET p == CHOOSE q \in S : TRUE
         IN  p[axis] + position_sum(S \ {p}, axis)

\* Centroid: the mean (row, column) position of the true cells of a 2D mask
center_of_mass(mask) ==
    LET S == {p \in DOMAIN mask.cell : mask.cell[p]}
    IN  <<Quotient(position_sum(S, 1), Cardinality(S)),
          Quotient(position_sum(S, 2), Cardinality(S))>>

\* the window [upper_bound, lower_bound) slid flush against an end of the
\* upscaled array when it reaches that end
clamp(lower_bound, upper_bound, extent, upscaled_extent) ==
    IF lower_bound >= upscaled_extent
    THEN [lower_bound |-> upscaled_extent, upper_bound |-> upscaled_extent - extent]
    ELSE IF upper_bound <= 0
    THEN [lower_bound |-> extent, upper_bound |-> 0]
    ELSE [lower_bound |-> lower_bound, upper_bound |-> upper_bound]

\* the first placement of the window without the slide against the ends
first_window_unclamped(upscaled_com, half_before, half_after, extent, upscaled_extent) ==
    [lower_bound |-> min(int(plus(upscaled_com, half_after)), upscaled_extent),
     upper_bound |-> max(int(plus(upscaled_com, -half_before)), 0)]

\* the first placement of the window of one layer, from the centroid of the
\* upscaled mask
first_window(upscaled_com, half_before, half_after, extent, upscaled_extent) ==
    clamp(min(int(plus(upscaled_com, half_after)), upscaled_extent),
          max(int(plus(upscaled_com, -half_before)), 0),
          extent, upscaled_extent)

\* upscaled[layer_idx, upper:lower, :] (axis 1) or upscaled[layer_idx, :, upper:lower]
\* (axis 2) as a 2D array
window_of(upscaled, layer_idx, w, axis) ==
    LET len == max(min(w.lower_bound, IF axis = 1 THEN upscaled.rows ELSE upscaled.cols)
                   - max(w.upper_bound, 0), 0)
    IN  IF axis = 1
        THEN [rows |-> len, cols |-> upscaled.cols,
              cell |-> [p \in Cells2(len, upscaled.cols) |->
                           upscaled.cell[<<layer_idx, w.upper_bound + p[1], p[2]>>]]]
        ELSE [rows |-> upscaled.rows, cols |-> len,
              cell |-> [p \in Cells2(upscaled.rows, len) |->
                           upscaled.cell[<<layer_idx, p[1], w.upper_bound + p[2]>>]]]

\* the window of one layer of vupscale after the first clamp
vupscale_first_window(selection, scale_factor, layer_idx) ==
    LET original_rows == selection.rows
        half_rows_top == IF original_rows % 2 = 0 THEN original_rows \div 2
                         ELSE original_rows \div 2 + 1
        half_rows_bottom == original_rows \div 2
        upscaled_com ==
            center_of_mass(Layer(repeat(selection, scale_factor, 1), layer_idx))[1]
    IN  first_window(upscaled_com, half_rows_top, half_rows_bottom,
                     original_rows, original_rows * scale_factor)

\* the window of one layer of hupscale after the first clamp
hupscale_first_window(selection, scale_factor, layer_idx) ==
    LET original_cols == selection.cols
        half_cols_left == IF original_cols % 2 = 0 THEN original_cols \div 2
                          ELSE original_cols \div 2 + 1
        half_cols_right == original_cols \div 2
        upscaled_com ==
            center_of_mass(Layer(repeat(selection, scale_factor, 2), layer_idx))[2]
    IN  first_window(upscaled_com, half_cols_left, half_cols_right,
                     original_cols, original_cols * scale_factor)

\* the loop body of vupscale for one layer: the final window, or the error
vupscale_window(selection, scale_factor, layer_idx) ==
    LET original_rows == selection.rows
        upscaled_selection == repeat(selection, scale_factor, 1)
        original_com == center_of_mass(Layer(selection, layer_idx))[1]
        upscaled_com == center_of_mass(Layer(upscaled_selection, layer_idx))[1]
        first == vupscale_first_window(selection, scale_factor, layer_idx)
        capped == window_of(upscaled_selection, layer_idx, first, 1)
        capped_com == center_of_mass(capped)[1]
        offset == minus(capped_com, original_com)
        lower_bound == plus(offset, first.lower_bound)
        upper_bound == plus(offset, first.upper_bound)
    IN  IF IsNaN(upscaled_com) THEN Raise("ValueError")
        ELSE IF capped.rows # original_rows THEN Raise("ValueError")
        ELSE IF at_least(lower_bound, original_rows * scale_factor)
        THEN Return([lower_bound |-> original_rows * scale_factor,
                     upper_bound |-> original_rows * scale_factor - original_rows])
        ELSE IF at_most(upper_bound, 0)
        THEN Return([lower_bound |-> original_rows, upper_bound |-> 0])
        ELSE Raise("TypeError")

\* the loop body of hupscale for one layer
hupscale_window(selection, scale_factor, layer_idx) ==
    LET original_cols == selection.cols
        upscaled_selection == repeat(selection, scale_factor, 2)
        upscaled_cols == upscaled_selection.cols
        original_com == center_of_mass(Layer(selection, layer_idx))[2]
        upscaled_com == center_of_mass(Layer(upscaled_selection, layer_idx))[2]
        first == hupscale_first_window(selection, scale_factor, layer_idx)
        capped == window_of(upscaled_selection, layer_idx, first, 2)
        capped_com == center_of_mass(capped)[2]
        offset == int(minus(capped_com, original_com))
    IN  IF IsNaN(upscaled_com) THEN Raise("ValueError")
        ELSE IF capped.cols # original_cols THEN Raise("ValueError")
        ELSE IF IsNaN(capped_com) THEN Raise("ValueError")
        ELSE Return(clamp(first.lower_bound + offset, first.upper_bound + offset,
                          original_cols, upscaled_cols))

\* the writes after the loop with the selected cells cleared last
upscale_write_clear_last(grid, selection, scale_factor, axis, windows) ==
    LET selection_3d_grid == create_grid3d(grid, selection)
        upscaled_selection == repeat(selection, scale_factor, axis)
        upscaled_selection_3d_grid == repeat(selection_3d_grid, scale_factor, axis)
        capped_selection ==
            [selection EXCEPT !.cell = [t \in DOMAIN selection.cell |->
                window_of(upscaled_selection, t[1], windows[t[1]].value, axis)
                    .cell[<<t[2], t[3]>>]]]
        capped_upscaled_grid ==
            [selection_3d_grid EXCEPT !.cell = [t \in DOMAIN selection_3d_grid.cell |->
                window_of(upscaled_selection_3d_grid, t[1], windows[t[1]].value, axis)
                    .cell[<<t[2], t[3]>>]]]
    IN  fill(put(selection_3d_grid, capped_selection,
                 take(capped_upscaled_grid, capped_selection)), selection, 0)

\* the writes after the loop, given the final window of every layer
upscale_write(grid, selection, scale_factor, axis, windows) ==
    LET selection_3d_grid == create_grid3d(grid, selection)
        upscaled_selection == repeat(selection, scale_factor, axis)
        upscaled_selection_3d_grid == repeat(selection_3d_grid, scale_factor, axis)
        capped_selection ==
            [selection EXCEPT !.cell = [t \in DOMAIN selection.cell |->
                window_of(upscaled_selection, t[1], windows[t[1]].value, axis)
                    .cell[<<t[2], t[3]>>]]]
        capped_upscaled_grid ==
            [selection_3d_grid EXCEPT !.cell = [t \in DOMAIN selection_3d_grid.cell |->
                window_of(upscaled_selection_3d_grid, t[1], windows[t[1]].value, axis)
                    .cell[<<t[2], t[3]>>]]]
    IN  put(fill(selection_3d_grid, selection, 0), capped_selection,
            take(capped_upscaled_grid, capped_selection))

\* the first layer whose loop body raises ends the call
upscale(grid, selection, scale_factor, axis, windows) ==
    LET failed == {l \in DOMAIN windows : windows[l].raised # "none"}
    IN  IF failed # {} THEN Raise(windows[SetMin(failed)].raised)
        ELSE Return(upscale_write(grid, selection, scale_factor, axis, windows))

vupscale(grid, selection, scale_factor) ==
    upscale(grid, selection, scale_factor, 1,
            [l \in 0 .. selection.n - 1 |-> vupscale_window(selection, scale_factor, l)])

hupscale(grid, selection, scale_factor) ==
    upscale(grid, selection, scale_factor, 2,
            [l \in 0 .. selection.n - 1 |-> hupscale_window(selection, scale_factor, l)])

\* ------------------------------------------------- delete and the background
delete(grid, selection) == Return(fill(create_grid3d(grid, selection), selection, 0))

\* ColorSelector.mostcolor: the most frequent colour of the grid, the
\* smallest one of several
mostcolor(grid) ==
    LET count(v) == Cardinality({p \in DOMAIN grid.cell : grid.cell[p] = v})
        colours == {grid.cell[p] : p \in DOMAIN grid.cell}
    IN  SetMin({v \in colours : \A u \in colours : count(u) <= count(v)})

\* grid3d == background_color
equals(a, v) == [a EXCEPT !.cell = [t \in DOMAIN a.cell |-> a.cell[t] = v]]

change_background_color(grid, selection, new_color) ==
    LET grid3d == create_grid3d(grid, selection)
        background_color == mostcolor(grid)
        chk == check_color(new_color)
    IN  IF chk.raised # "none" THEN Raise(chk.raised)
        ELSE Return(fill(grid3d, equals(grid3d, background_color), new_color))

change_selection_to_background_color(grid, selection) ==
    LET background_color == mostcolor(grid)
        grid_3d == create_grid3d(grid, selection)
    IN  Return(fill(grid_3d, selection, background_color))

\* --------------------------------------------------------------- the caller
\* the (rows, cols) shapes the bounded inputs are drawn from
Shapes == {<<1, 3>>, <<2, 2>>, <<2, 3>>, <<3, 2>>}

\* the grid whose cells all hold different non-zero values (1, 2, ... row-major)
Labelled(R, C) ==
    [rows |-> R, cols |-> C, cell |-> [p \in Cells2(R, C) |-> 1 + p[1] * C + p[2]]]

\* the all-zero grid and the grids with one painted cell
Sparse(R, C) ==
    {[rows |-> R, cols |-> C, cell |-> [p \in Cells2(R, C) |-> 0]]}
    \cup {[rows |-> R, cols |-> C,
           cell |-> [p \in Cells2(R, C) |-> IF p = qc[1] THEN qc[2] ELSE 0]] :
               qc \in Cells2(R, C) \X InkColours}

Grids(R, C) == Sparse(R, C) \cup {Labelled(R, C)}

\* the mask stack of N layers whose true cells are the triples of S
Stack(N, R, C, S) ==
    [n |-> N, rows |-> R, cols |-> C, cell |-> [t \in Cells3(N, R, C) |-> t \in S]]

\* mask stacks of N layers with at most MaxSel selected cells in all
Stacks(N, R, C) ==
    {Stack(N, R, C, S) : S \in {T \in SUBSET Cells3(N, R, C) : Cardinality(T) <= MaxSel}}

NoCall == [op |-> "none", x |-> 0, y |-> 0]

Start(g, s, t) ==
    /\ caller_grid = g
    /\ caller_selection = s
    /\ tie = t
    /\ orig = g
    /\ pc = "idle"
    /\ call = NoCall
    /\ ret = Raise("none")
    /\ ncalls = 0
    /\ kept = -1
    /\ Constructed

\* one mask layer over every bounded grid; two layers over the labelled grid
Inputs(ties) ==
    \E sh \in Shapes : \E t \in ties :
        \/ \E g \in Grids(sh[1], sh[2]) : \E s \in Stacks(1, sh[1], sh[2]) : Start(g, s, t)
        \/ \E s \in Stacks(2, sh[1], sh[2]) : Start(Labelled(sh[1], sh[2]), s, t)

\* the concrete scenarios of the specification
Scenario5 ==
    [rows |-> 3, cols |-> 3, cell |-> [p \in Cells2(3, 3) |-> IF p = <<1, 1>> THEN 5 ELSE 0]]

Scenario1234 ==
    [rows |-> 2, cols |-> 2, cell |-> [p \in Cells2(2, 2) |-> 1 + 2 * p[1] + p[2]]]

Scenarios(ties) ==
    \E t \in ties :
        \/ Start(Scenario5, Stack(1, 3, 3, {<<0, 1, 1>>}), t)
        \/ Start(Scenario1234, Stack(1, 2, 2, Cells3(1, 2, 2)), t)
        \/ Start(Labelled(3, 3), Stack(1, 3, 3, Cells3(1, 3, 3)), t)

\* the caller invokes operator c; out is what the operator yields.  A caller
\* that composes calls repeats the same call on the layer it kept.
\* a call whose operator works in the caller's grid instead of a stack of its own
InvokeInPlace(c, out) ==
    /\ pc = "idle"
    /\ ncalls = 0 \/ call = c
    /\ pc' = "returned"
    /\ call' = c
    /\ ret' = out
    /\ ncalls' = ncalls + 1
    /\ caller_grid' = IF /\ out.raised = "none"
                         /\ Is3D(out.value)
                         /\ out.value.n > 0
                         /\ out.value.rows = caller_grid.rows
                         /\ out.value.cols = caller_grid.cols
                      THEN Layer(out.value, 0)
                      ELSE caller_grid
    /\ UNCHANGED <<caller_selection, tie, orig, kept>>
    /\ UNCHANGED env_vars

Invoke(c, out) ==
    /\ pc = "idle"
    /\ ncalls = 0 \/ call = c
    /\ pc' = "returned"
    /\ call' = c
    /\ ret' = out
    /\ ncalls' = ncalls + 1
    /\ UNCHANGED <<caller_grid, caller_selection, tie, orig, kept>>
    /\ UNCHANGED env_vars

Flipv == Invoke([op |-> "flipv", x |-> 0, y |-> 0], flipv(caller_grid, caller_selection))

Fliph == Invoke([op |-> "fliph", x |-> 0, y |-> 0], fliph(caller_grid, caller_selection))

Shifts == (-MaxShift) .. MaxShift

\* rotation counts a caller passes: the valid ones and one beyond each end
RotArgs == 0 .. 4

\* colours a caller passes: inside, on the ends of and beyond the valid range
ColorArgs == {-1, 0, 7, 200, 201}

Rotate ==
    \E n \in RotArgs :
        Invoke([op |-> "rotate", x |-> n, y |-> 0], rotate(caller_grid, caller_selection, n))

Color ==
    \E c \in ColorArgs :
        Invoke([op |-> "color", x |-> c, y |-> 0], color(caller_grid, caller_selection, c))

FillWithColor ==
    \E c \in ColorArgs :
        Invoke([op |-> "fill_with_color", x |-> c, y |-> 0],
               fill_with_color(caller_grid, caller_selection, c))

FillBoundingRectangleWithColor ==
    \E c \in ColorArgs :
        Invoke([op |-> "fill_bounding_rectangle_with_color", x |-> c, y |-> 0],
               fill_bounding_rectangle_with_color(caller_grid, caller_selection, c))

FillBoundingSquareWithColor ==
    \E c \in ColorArgs :
        Invoke([op |-> "fill_bounding_square_with_color", x |-> c, y |-> 0],
               fill_bounding_square_with_color(caller_grid, caller_selection, c))

CopyPaste ==
    \E sx \in Shifts, sy \in Shifts :
        Invoke([op |-> "copy_paste", x |-> sx, y |-> sy],
               copy_paste(caller_grid, caller_selection, sx, sy))

CopySum ==
    \E sx \in Shifts, sy \in Shifts :
        Invoke([op |-> "copy_sum", x |-> sx, y |-> sy],
               copy_sum(caller_grid, caller_selection, sx, sy))

CutPaste ==
    \E sx \in Shifts, sy \in Shifts :
        Invoke([op |-> "cut_paste", x |-> sx, y |-> sy],
               cut_paste(caller_grid, caller_selection, sx, sy))

CutSum ==
    \E sx \in Shifts, sy \in Shifts :
        Invoke([op |-> "cut_sum", x |-> sx, y |-> sy],
               cut_sum(caller_grid, caller_selection, sx, sy))

\* the caller keeps one layer of the returned stack (the same layer after
\* every call) as its next grid
Compose ==
    /\ pc = "returned"
    /\ ret.raised = "none"
    /\ ncalls < MaxCalls
    /\ ret.value.rows = caller_selection.rows
    /\ ret.value.cols = caller_selection.cols
    /\ \E l \in 0 .. ret.value.n - 1 :
          /\ kept = -1 \/ kept = l
          /\ kept' = l
          /\ caller_grid' = Layer(ret.value, l)
    /\ pc' = "idle"
    /\ UNCHANGED <<caller_selection, tie, orig, call, ret, ncalls>>
    /\ UNCHANGED env_vars

Call(name) == [op |-> name, x |-> 0, y |-> 0]

MirrorHorizontally ==
    Invoke(Call("mirror_horizontally"), mirror_horizontally(caller_grid, caller_selection))

MirrorVertically ==
    Invoke(Call("mirror_vertically"), mirror_vertically(caller_grid, caller_selection))

DuplicateHorizontally ==
    Invoke(Call("duplicate_horizontally"),
           duplicate_horizontally(caller_grid, caller_selection))

DuplicateVertically ==
    Invoke(Call("duplicate_vertically"), duplicate_vertically(caller_grid, caller_selection))

CopyPasteVertically ==
    Invoke(Call("copy_paste_vertically"), copy_paste_vertically(caller_grid, caller_selection))

CopyPasteHorizontally ==
    Invoke(Call("copy_paste_horizontally"),
           copy_paste_horizontally(caller_grid, caller_selection))

Crop == Invoke(Call("crop"), crop(caller_grid, caller_selection))

FlipMainDiagonal ==
    Invoke(Call("flip_main_diagonal"), flip_main_diagonal(caller_grid, caller_selection))

FlipAntiDiagonal ==
    Invoke(Call("flip_anti_diagonal"), flip_anti_diagonal(caller_grid, caller_selection))

\* scale factors a caller passes
ScaleArgs == {1, 2, 3}

Vupscale ==
    \E f \in ScaleArgs :
        Invoke([op |-> "vupscale", x |-> f, y |-> 0],
               vupscale(caller_grid, caller_selection, f))

Hupscale ==
    \E f \in ScaleArgs :
        Invoke([op |-> "hupscale", x |-> f, y |-> 0],
               hupscale(caller_grid, caller_selection, f))

Delete == Invoke(Call("delete"), delete(caller_grid, caller_selection))

ChangeBackgroundColor ==
    \E c \in ColorArgs :
        Invoke([op |-> "change_background_color", x |-> c, y |-> 0],
               change_background_color(caller_grid, caller_selection, c))

ChangeSelectionToBackgroundColor ==
    Invoke(Call("change_selection_to_background_color"),
           change_selection_to_background_color(caller_grid, caller_selection))

InitFlip == Inputs({0}) \/ Scenarios({0})

NextFlip == Flipv \/ Fliph \/ Compose

SpecFlip == InitFlip /\ [][NextFlip]_vars

InitRotate == Inputs({0, 1}) \/ Scenarios({0, 1})

NextRotate == Rotate \/ Compose

SpecRotate == InitRotate /\ [][NextRotate]_vars

InitShift == Inputs({0}) \/ Scenarios({0})

NextShift == CopyPaste \/ CopySum \/ CutPaste \/ CutSum

SpecShift == InitShift /\ [][NextShift]_vars

InitParam == Inputs({0, 1}) \/ Scenarios({0, 1})

NextParam ==
    \/ Rotate
    \/ Color
    \/ FillWithColor
    \/ FillBoundingRectangleWithColor
    \/ FillBoundingSquareWithColor

SpecParam == InitParam /\ [][NextParam]_vars

\* the shapes on both sides of the extent limit of the extension operators
LongShapes == {<<1, 15>>, <<1, 16>>, <<15, 1>>, <<16, 1>>}

\* one mask layer over the labelled grid of every long shape
LongInputs ==
    \E sh \in LongShapes : \E s \in Stacks(1, sh[1], sh[2]) :
        Start(Labelled(sh[1], sh[2]), s, 0)

InitExtend == Inputs({0}) \/ LongInputs

NextExtend ==
    \/ MirrorHorizontally
    \/ MirrorVertically
    \/ DuplicateHorizontally
    \/ DuplicateVertically

SpecExtend == InitExtend /\ [][NextExtend]_vars

\* shapes long enough for several tiles and for a tile that partly fits
TileShapes == {<<5, 1>>, <<1, 5>>}

TileInputs ==
    \E sh \in TileShapes :
        \/ \E g \in Grids(sh[1], sh[2]) : \E s \in Stacks(1, sh[1], sh[2]) : Start(g, s, 0)
        \/ \E s \in Stacks(2, sh[1], sh[2]) : Start(Labelled(sh[1], sh[2]), s, 0)

InitTile == Inputs({0}) \/ TileInputs

NextTile == CopyPasteVertically \/ CopyPasteHorizontally

SpecTile == InitTile /\ [][NextTile]_vars

\* every one-layer mask of the 3x3 grid: rings, open rings, crosses
HoleInputs ==
    \E S \in SUBSET Cells3(1, 3, 3) : Start(Labelled(3, 3), Stack(1, 3, 3, S), 0)

InitRegion == Inputs({0}) \/ HoleInputs

NextRegion == FillWithColor \/ Crop

SpecRegion == InitRegion /\ [][NextRegion]_vars

InitDiagonal == Inputs({0, 1}) \/ Scenarios({0, 1})

NextDiagonal == FlipMainDiagonal \/ FlipAntiDiagonal \/ Compose

SpecDiagonal == InitDiagonal /\ [][NextDiagonal]_vars

\* every pair of mask layers over the labelled grid of three cells in a line
ScaleInputs ==
    \E sh \in {<<3, 1>>, <<1, 3>>} : \E S \in SUBSET Cells3(2, sh[1], sh[2]) :
        Start(Labelled(sh[1], sh[2]), Stack(2, sh[1], sh[2], S), 0)

InitScale == Inputs({0}) \/ ScaleInputs

NextScale == Vupscale \/ Hupscale

SpecScale == InitScale /\ [][NextScale]_vars

\* one and two mask layers over the labelled grid of every bounded shape
InitAll ==
    \E sh \in Shapes : \E s \in Stacks(1, sh[1], sh[2]) \cup Stacks(2, sh[1], sh[2]) :
        Start(Labelled(sh[1], sh[2]), s, 0)

NextAll ==
    \/ Flipv
    \/ Fliph
    \/ Delete
    \/ Rotate
    \/ Crop
    \/ Color
    \/ FillWithColor
    \/ FlipMainDiagonal
    \/ FlipAntiDiagonal
    \/ CopyPaste
    \/ CopySum
    \/ CutPaste
    \/ CutSum
    \/ ChangeBackgroundColor
    \/ ChangeSelectionToBackgroundColor
    \/ Vupscale
    \/ Hupscale
    \/ FillBoundingRectangleWithColor
    \/ FillBoundingSquareWithColor
    \/ MirrorHorizontally
    \/ MirrorVertically
    \/ DuplicateHorizontally
    \/ DuplicateVertically
    \/ CopyPasteVertically
    \/ CopyPasteHorizontally

SpecAll == InitAll /\ [][NextAll]_vars


\* ------------------------------------------------------------- environment
\* the side of the padded observation the environment is constructed with
dim == 3

STEP_PENALTY == 1
SHAPE_PENALTY == 1
MAXIMUM_SIMILARITY == 50
COMPLETION_REWARD == 25
MAX_STATES_PER_ACTION == 1

\* np.array(rows) of a list of rows
array(rows) ==
    [rows |-> Len(rows), cols |-> Len(rows[1]),
     cell |-> [p \in Cells2(Len(rows), Len(rows[1])) |-> rows[p[1] + 1][p[2] + 1]]]

\* pad_grid: the grid in the top-left corner of a dim x dim array of the
\* padding sentinel -1
pad_grid(grid) ==
    IF grid.rows > dim \/ grid.cols > dim THEN Raise("ValueError")
    ELSE Return([rows |-> dim, cols |-> dim,
                 cell |-> [p \in Cells2(dim, dim) |->
                              IF p[1] < grid.rows /\ p[2] < grid.cols
                              THEN grid.cell[p] ELSE -1]])

\* unpad_grid: the rows and columns that hold a cell other than the sentinel
unpad_grid(padded) ==
    LET inside == {p \in DOMAIN padded.cell : padded.cell[p] # -1}
        R == IF inside = {} THEN 0 ELSE SetMax({p[1] : p \in inside}) + 1
        C == IF inside = {} THEN 0 ELSE SetMax({p[2] : p \in inside}) + 1
    IN  [rows |-> R, cols |-> C, cell |-> [p \in Cells2(R, C) |-> padded.cell[p]]]

\* the challenges the environment is constructed with
challenge_dictionary ==
    [challenge_key \in {"a", "b"} |->
        IF challenge_key = "a"
        THEN [train |-> <<[input |-> <<<<0, 1>>>>, output |-> <<<<1, 0>>>>],
                          [input |-> <<<<1>>>>, output |-> <<<<1>>>>]>>]
        ELSE [train |-> <<[input |-> <<<<1, 1>>, <<0, 1>>>>,
                           output |-> <<<<0, 0>>, <<0, 0>>>>],
                          [input |-> <<<<0, 1>>>>, output |-> <<<<0, 1, 1>>>>],
                          [input |-> <<<<1>>>>, output |-> <<<<1>>>>]>>]]

\* get_random_challenge for the key and the index the generator draws
get_random_challenge(challenge_key, random_index) ==
    LET random_challenge == challenge_dictionary[challenge_key].train[random_index + 1]
        random_input == array(random_challenge.input)
        random_output == array(random_challenge.output)
        shape == <<<<random_input.rows, random_output.rows>>,
                   <<random_input.cols, random_output.cols>>>>
        training_grid == <<pad_grid(random_input).value, pad_grid(random_output).value>>
    IN  [state |-> [grid |-> training_grid, shape |-> shape], key |-> challenge_key]

\* the number of equal cells of array1 and array2 under the best alignment
maximum_overlap_regions(array1, array2) ==
    LET matches(i, j) ==
            Cardinality({p \in DOMAIN array1.cell :
                /\ <<p[1] - i, p[2] - j>> \in DOMAIN array2.cell
                /\ array1.cell[p] = array2.cell[<<p[1] - i, p[2] - j>>]})
    IN  IF array1.rows = array2.rows /\ array1.cols = array2.cols
        THEN matches(0, 0)
        ELSE SetMax({0} \cup {matches(i, j) : i \in (1 - array2.rows) .. (array1.rows - 1),
                                              j \in (1 - array2.cols) .. (array1.cols - 1)})

\* x < y for two floats with positive denominators
less(x, y) == x.num * y.den < y.num * x.den

\* best_overlap_reward: the reward as a quotient over the size of the target
best_overlap_reward(previous_state_unpadded, current_state_unpadded, target_state_unpadded) ==
    LET size == target_state_unpadded.rows * target_state_unpadded.cols
        previous_score == maximum_overlap_regions(previous_state_unpadded,
                                                  target_state_unpadded)
        current_score == maximum_overlap_regions(current_state_unpadded,
                                                 target_state_unpadded)
        same_shape == /\ current_state_unpadded.rows = target_state_unpadded.rows
                      /\ current_state_unpadded.cols = target_state_unpadded.cols
        step_penalty == IF same_shape THEN STEP_PENALTY ELSE STEP_PENALTY + SHAPE_PENALTY
    IN  IF same_shape /\ current_state_unpadded = target_state_unpadded
        THEN [reward |-> Quotient(COMPLETION_REWARD, 1), solved |-> TRUE]
        ELSE [reward |-> Quotient((current_score - previous_score) * MAXIMUM_SIMILARITY
                                      - step_penalty * size, size),
              solved |-> FALSE]

\* the masks the selectors of the action space yield for a grid and a colour:
\* the cells of another colour, and the cells of the colour and every cell as
\* two layers
selection_dict(selection_key, grid, color_) ==
    LET of_color == {<<0, p[1], p[2]>> : p \in {q \in DOMAIN grid.cell : grid.cell[q] = color_}}
        others == {<<0, p[1], p[2]>> : p \in {q \in DOMAIN grid.cell : grid.cell[q] # color_}}
    IN  CASE selection_key = 0 -> Stack(1, grid.rows, grid.cols, others)
          [] selection_key = 1 ->
                Stack(2, grid.rows, grid.cols,
                      of_color \cup {<<1, p[1], p[2]>> : p \in DOMAIN grid.cell})

\* three of the operators of the action space, under keys of the model
transformation_dict(transformation_key, grid, selection) ==
    CASE transformation_key = 0 -> fliph(grid, selection)
      [] transformation_key = 1 -> duplicate_horizontally(grid, selection)
      [] transformation_key = 2 -> cut_paste(grid, selection, 1, 1)

ColorSelectionNames == <<"rankcolor, rank=0">>

SelectionNames == <<"select_others, ", "select_color_and_all, ">>

TransformationNames == <<"fliph, ", "duplicate_horizontally, ", "cut_paste, shift_x=1, shift_y=1">>

\* the actions of the action space: a colour selection, a selection and a
\* transformation key
Actions == {0} \X {0, 1} \X {0, 1, 2}

action_to_string(action) ==
    [color_selection |-> ColorSelectionNames[action[1] + 1],
     selection |-> SelectionNames[action[2] + 1],
     transformation |-> TransformationNames[action[3] + 1]]

\* act: the stack the action yields for the unpadded state
act(previous_state, action) ==
    LET color_ == mostcolor(previous_state)
        selected == selection_dict(action[2], previous_state, color_)
    IN  IF \E t \in DOMAIN selected.cell : selected.cell[t]
        THEN transformation_dict(action[3], previous_state, selected)
        ELSE Return(expand_dims(previous_state))

\* np.argsort(rewards): the indices by rising reward, equal rewards by index
argsort(rewards) ==
    LET before(j, i) == less(rewards[j], rewards[i])
                        \/ (~less(rewards[i], rewards[j]) /\ j < i)
    IN  [k \in 1 .. Cardinality(DOMAIN rewards) |->
            CHOOSE i \in DOMAIN rewards :
                Cardinality({j \in DOMAIN rewards : before(j, i)}) = k - 1]

\* the update of the info dictionary that counts no action
record_action_uncounted(info_, action) ==
    [info_ EXCEPT !.actions = Append(@, action),
                  !.action_strings = Append(@, action_to_string(action))]

\* the update of the info dictionary at the start of step
record_action(info_, action) ==
    [info_ EXCEPT !.actions = Append(@, action),
                  !.action_strings = Append(@, action_to_string(action)),
                  !.num_actions = @ + 1]

\* the fields and the outcome of a call of step that raises e after the info
\* dictionary was updated
step_raises(info1, e) ==
    [new_states |-> new_states, infos |-> infos, state |-> state, info |-> info1,
     return |-> [call |-> "step", raised |-> e]]

\* the reward and the solved flag of every layer of the stack
step_rewards(previous_state_not_padded, current_state_tensor, target_state_not_padded) ==
    [i \in 0 .. current_state_tensor.n - 1 |->
        best_overlap_reward(previous_state_not_padded, Layer(current_state_tensor, i),
                            target_state_not_padded)]

\* current_states and shapes: every layer padded, beside the target
step_states(current_state_tensor, target_state, target_state_not_padded) ==
    [i \in 0 .. current_state_tensor.n - 1 |->
        [grid |-> <<pad_grid(Layer(current_state_tensor, i)).value, target_state>>,
         shape |-> <<<<current_state_tensor.rows, target_state_not_padded.rows>>,
                     <<current_state_tensor.cols, target_state_not_padded.cols>>>>]]

\* the end of step: the solved branch, or the best layers through the deques
step_select(info1, outcomes, current_states) ==
    LET n == Cardinality(DOMAIN outcomes)
        rewards == [i \in DOMAIN outcomes |-> outcomes[i].reward]
        solveds == {i \in DOMAIN outcomes : outcomes[i].solved}
        num_states_to_evaluate == min(MAX_STATES_PER_ACTION, n)
        top_n_indices == SubSeq(argsort(rewards), n - num_states_to_evaluate + 1, n)
        top == {top_n_indices[k] : k \in 1 .. Len(top_n_indices)}
        reward == rewards[CHOOSE i \in top : \A j \in top : ~less(rewards[i], rewards[j])]
        appended_states == new_states \o [k \in 1 .. Len(top_n_indices) |->
                                             current_states[top_n_indices[k]]]
        appended_infos == infos \o [k \in 1 .. Len(top_n_indices) |-> info1]
    IN  IF solveds # {}
        THEN [new_states |-> new_states, infos |-> infos,
              state |-> current_states[SetMin(solveds)],
              info |-> [info1 EXCEPT !.solved = TRUE],
              return |-> [call |-> "step", raised |-> "none", reward |-> reward,
                          done |-> TRUE]]
        ELSE [new_states |-> Tail(appended_states), infos |-> Tail(appended_infos),
              state |-> Head(appended_states),
              info |-> Head(appended_infos),
              return |-> [call |-> "step", raised |-> "none", reward |-> reward,
                          done |-> FALSE]]

\* the loop of step over the layers the action yielded
step_loop(info1, previous_state_not_padded, target_state, target_state_not_padded, acted) ==
    IF acted.raised # "none" THEN step_raises(info1, acted.raised)
    ELSE IF \E i \in 0 .. acted.value.n - 1 :
                pad_grid(Layer(acted.value, i)).raised # "none"
    THEN step_raises(info1, "ValueError")
    ELSE step_select(info1,
                     step_rewards(previous_state_not_padded, acted.value,
                                  target_state_not_padded),
                     step_states(acted.value, target_state, target_state_not_padded))

\* step: the fields after the call and what the call returns
step(action) ==
    step_loop(record_action(info, action), unpad_grid(state.grid[1]), state.grid[2],
              unpad_grid(state.grid[2]), act(unpad_grid(state.grid[1]), action))

transformer_vars == <<caller_grid, caller_selection, tie, orig, pc, call, ret, ncalls, kept>>

\* reset() for the challenge the generator draws; the last training pair of a
\* challenge is never drawn
Reset ==
    \E challenge_key \in DOMAIN challenge_dictionary :
        \E random_index \in 0 .. Len(challenge_dictionary[challenge_key].train) - 2 :
            LET drawn == get_random_challenge(challenge_key, random_index)
                info_ == [key |-> drawn.key, actions |-> <<>>, action_strings |-> <<>>,
                          num_actions |-> 0, solved |-> FALSE]
                appended_states == Append(<<>>, drawn.state)
                appended_infos == Append(<<>>, info_)
            IN  /\ new_states' = Tail(appended_states)
                /\ infos' = Tail(appended_infos)
                /\ done' = FALSE
                /\ state' = Head(appended_states)
                /\ info' = Head(appended_infos)
                /\ step_return' = [call |-> "reset", raised |-> "none"]
                /\ episode' = [target |-> drawn.state.grid[2], steps |-> 0]
                /\ UNCHANGED transformer_vars

\* step(action) on an environment that was reset
EnvStep ==
    /\ episode # None
    /\ episode.steps < MaxSteps
    /\ \E action \in Actions :
          LET after == step(action)
          IN  /\ new_states' = after.new_states
              /\ infos' = after.infos
              /\ state' = after.state
              /\ info' = after.info
              /\ step_return' = after.return
    /\ episode' = [episode EXCEPT !.steps = @ + 1]
    /\ UNCHANGED done
    /\ UNCHANGED transformer_vars

\* no operator call is in progress around the environment
InitEnv == Start(Scenario1234, Stack(1, 2, 2, {}), 0)

NextEnv == Reset \/ EnvStep

SpecEnv == InitEnv /\ [][NextEnv]_vars

\* ------------------------------------------------------------------ claims
Returned(name) == pc = "returned" /\ call.op = name

ShiftOps == {"copy_paste", "copy_sum", "cut_paste", "cut_sum"}

\* the selected cells of layer l whose shifted position is the cell q
Sources(l, q) ==
    {p \in LayerCells(caller_selection, l) : <<p[1] + call.y, p[2] + call.x>> = q}

Source(l, q) == CHOOSE p \in Sources(l, q) : TRUE

Selected(t) == caller_selection.cell[t]

In(t) == caller_grid.cell[<<t[2], t[3]>>]

Out(t) == ret.value.cell[t]

SameShape ==
    /\ ret.value.n = caller_selection.n
    /\ ret.value.rows = caller_grid.rows
    /\ ret.value.cols = caller_grid.cols

AsGrid(rows) ==
    [rows |-> Len(rows), cols |-> Len(rows[1]),
     cell |-> [p \in Cells2(Len(rows), Len(rows[1])) |-> rows[p[1] + 1][p[2] + 1]]]

InScenario5 ==
    /\ caller_grid = Scenario5
    /\ caller_selection = Stack(1, 3, 3, {<<0, 1, 1>>})
    /\ call.x = 1
    /\ call.y = 0

RECURSIVE SumOver(_, _)
SumOver(f, S) ==
    IF S = {} THEN 0
    ELSE LET x == CHOOSE y \in S : TRUE IN f[x] + SumOver(f, S \ {x})

\* C1: copy_paste, copy_sum, cut_paste and cut_sum return normally for every
\* shift, and the only cells of a layer whose value differs from the input are
\* in-bounds shifted positions of selected cells of that layer (and, for the
\* cut variants, the selected cells): a cell shifted out of the grid is written
\* nowhere, neither wrapped through a negative index nor clamped to the border.
C1_DisplacementBounds ==
    (pc = "returned" /\ call.op \in ShiftOps) =>
        /\ ret.raised = "none"
        /\ SameShape
        /\ \A t \in DOMAIN ret.value.cell :
              Out(t) # In(t) =>
                  \/ Sources(t[1], <<t[2], t[3]>>) # {}
                  \/ call.op \in {"cut_paste", "cut_sum"} /\ Selected(t)

\* a painted selected cell is shifted above the first row or left of the first
\* column, where a negative index would wrap
C1_Witness ==
    /\ Returned("copy_paste")
    /\ ret.raised = "none"
    /\ \E t \in DOMAIN caller_selection.cell :
          /\ Selected(t)
          /\ In(t) # 0
          /\ t[2] + call.y < 0 \/ t[3] + call.x < 0

\* C2: cut_paste zeroes the whole mask and then writes the moved values: a
\* cell that is the in-bounds destination of a selected cell holds the input
\* value of that source, any other selected cell is 0, every other cell keeps
\* its input value; in the scenario the result is [[0,0,0],[0,0,5],[0,0,0]].
C2_CutPaste ==
    Returned("cut_paste") =>
        /\ ret.raised = "none"
        /\ SameShape
        /\ \A t \in DOMAIN ret.value.cell :
              Out(t) = IF Sources(t[1], <<t[2], t[3]>>) # {}
                       THEN caller_grid.cell[Source(t[1], <<t[2], t[3]>>)]
                       ELSE IF Selected(t) THEN 0 ELSE In(t)
        /\ InScenario5 =>
              Layer(ret.value, 0) = AsGrid(<<<<0, 0, 0>>, <<0, 0, 5>>, <<0, 0, 0>>>>)

\* a painted selected cell is erased because its destination is outside the
\* grid, while another selected cell of the call is moved
C2_Witness ==
    /\ Returned("cut_paste")
    /\ ret.raised = "none"
    /\ \E t \in DOMAIN caller_selection.cell :
          /\ Selected(t)
          /\ In(t) # 0
          /\ ~valid_mask(t[2] + call.y, t[3] + call.x, caller_grid)
          /\ Out(t) = 0
    /\ \E t \in DOMAIN caller_selection.cell :
          /\ Selected(t)
          /\ valid_mask(t[2] + call.y, t[3] + call.x, caller_grid)

\* C3 as stated: copy_paste in the scenario yields [[0,0,0],[0,0,5],[0,0,0]].
C3_Original ==
    (Returned("copy_paste") /\ InScenario5) =>
        /\ ret.raised = "none"
        /\ Layer(ret.value, 0) = AsGrid(<<<<0, 0, 0>>, <<0, 0, 5>>, <<0, 0, 0>>>>)

\* C3: copy_paste on grid [[0,0,0],[0,5,0],[0,0,0]] with a single-layer mask
\* true only at (1,1), shift_x=1, shift_y=0 yields [[0,0,0],[0,5,5],[0,0,0]]:
\* the source cell keeps its 5.
C3_CopyPasteScenario ==
    (Returned("copy_paste") /\ InScenario5) =>
        /\ ret.raised = "none"
        /\ ret.value.n = 1
        /\ Layer(ret.value, 0) = AsGrid(<<<<0, 0, 0>>, <<0, 5, 5>>, <<0, 0, 0>>>>)

C3_Witness == Returned("copy_paste") /\ InScenario5

\* C4: copy_paste writes to every in-bounds destination the value its source
\* had in the input grid and leaves every other cell, the sources included,
\* at its input value.
C4_CopyPaste ==
    Returned("copy_paste") =>
        /\ ret.raised = "none"
        /\ SameShape
        /\ \A t \in DOMAIN ret.value.cell :
              Out(t) = IF Sources(t[1], <<t[2], t[3]>>) # {}
                       THEN caller_grid.cell[Source(t[1], <<t[2], t[3]>>)]
                       ELSE In(t)

\* a selected cell is itself the destination of another selected cell and
\* passes on the value it had before the call
C4_Witness ==
    /\ Returned("copy_paste")
    /\ ret.raised = "none"
    /\ \E t \in DOMAIN caller_selection.cell :
          /\ Selected(t)
          /\ Sources(t[1], <<t[2], t[3]>>) # {}
          /\ In(t) # caller_grid.cell[Source(t[1], <<t[2], t[3]>>)]
          /\ valid_mask(t[2] + call.y, t[3] + call.x, caller_grid)
          /\ Out(<<t[1], t[2] + call.y, t[3] + call.x>>) = In(t)

LayerSum(a, l) == SumOver(Layer(a, l).cell, Cells2(a.rows, a.cols))

\* C5 as stated: copy_sum with shift (0,0) leaves the sum of every layer equal
\* to the sum of the input grid.
C5_Original ==
    (Returned("copy_sum") /\ call.x = 0 /\ call.y = 0) =>
        /\ ret.raised = "none"
        /\ \A l \in 0 .. ret.value.n - 1 :
              LayerSum(ret.value, l) = SumOver(caller_grid.cell, DOMAIN caller_grid.cell)

\* C5: copy_sum with shift (0,0) adds every selected cell to itself: the sum
\* of output layer i is the sum of the input grid plus the sum of the input
\* values of the cells selected in mask layer i.
C5_CopySumZeroShift ==
    (Returned("copy_sum") /\ call.x = 0 /\ call.y = 0) =>
        /\ ret.raised = "none"
        /\ \A l \in 0 .. ret.value.n - 1 :
              LayerSum(ret.value, l) =
                  SumOver(caller_grid.cell, DOMAIN caller_grid.cell)
                  + SumOver(caller_grid.cell, LayerCells(caller_selection, l))

C5_Witness ==
    /\ Returned("copy_sum")
    /\ call.x = 0
    /\ call.y = 0
    /\ ret.raised = "none"
    /\ \E t \in DOMAIN caller_selection.cell : Selected(t) /\ In(t) # 0

\* C6: copy_sum adds to every in-bounds destination the input value of its
\* source, without clamping the sum to the palette, and leaves every other
\* cell at its input value.
C6_CopySum ==
    Returned("copy_sum") =>
        /\ ret.raised = "none"
        /\ SameShape
        /\ \A t \in DOMAIN ret.value.cell :
              Out(t) = IF Sources(t[1], <<t[2], t[3]>>) # {}
                       THEN In(t) + caller_grid.cell[Source(t[1], <<t[2], t[3]>>)]
                       ELSE In(t)

\* a destination ends above the palette
C6_Witness ==
    /\ Returned("copy_sum")
    /\ ret.raised = "none"
    /\ \E t \in DOMAIN ret.value.cell :
          /\ Out(t) > 9
          /\ In(t) <= 9
          /\ ~Selected(t)

\* C7: flipv applied twice with the same mask, the second time to the layer
\* the first call produced for that mask, gives back the grid; so does fliph.
C7_FlipInvolution ==
    (pc = "returned" /\ call.op \in {"flipv", "fliph"} /\ ncalls = 2) =>
        /\ ret.raised = "none"
        /\ Layer(ret.value, kept) = orig

\* the first flipv changed the grid and the second restored it
C7_Witness ==
    /\ Returned("flipv")
    /\ ncalls = 2
    /\ caller_grid # orig
    /\ Layer(ret.value, kept) = orig

\* the bounding square of mask layer l lies inside the grid
SquareInside(l) ==
    LET b == SquareBounds(caller_selection, l)
    IN  /\ 0 <= b.rmin /\ b.rmax < caller_selection.rows
        /\ 0 <= b.cmin /\ b.cmax < caller_selection.cols

\* C8: four rotate calls with num_rotations=1 and the same mask, each on the
\* layer the previous call produced for that mask, give back the grid when
\* the bounding square of the mask lies inside the grid.
C8_RotationCycle ==
    (Returned("rotate") /\ call.x = 1 /\ ncalls = 4 /\ SquareInside(kept)) =>
        /\ ret.raised = "none"
        /\ Layer(ret.value, kept) = orig

\* a quarter turn inside a grid that is not square changed it, and the fourth
\* restored it
C8_Witness ==
    /\ Returned("rotate")
    /\ call.x = 1
    /\ ncalls = 4
    /\ SquareInside(kept)
    /\ caller_grid.rows # caller_grid.cols
    /\ caller_grid # orig
    /\ Layer(ret.value, kept) = orig

\* the cell of the input whose value a rotation by n quarter turns
\* counterclockwise brings to position (i, j) of a square of side s at (r0, c0)
Turned(n, r0, c0, s, i, j) ==
    CASE n = 1 -> <<r0 + j, c0 + s - 1 - i>>
      [] n = 2 -> <<r0 + s - 1 - i, c0 + s - 1 - j>>
      [] OTHER -> <<r0 + s - 1 - j, c0 + i>>

\* C9: rotate with n in {1,2,3} replaces the sub-block of the bounding square
\* (when it lies inside the grid, square or not) by that sub-block turned n
\* quarter turns counterclockwise and leaves the cells outside it unchanged;
\* [[1,2],[3,4]] with the all-true mask and n=1 gives [[2,4],[1,3]].
C9_Rotate ==
    (Returned("rotate") /\ call.x \in 1 .. 3) =>
        /\ ret.raised = "none"
        /\ SameShape
        /\ \A t \in DOMAIN ret.value.cell :
              SquareInside(t[1]) =>
                  LET b == SquareBounds(caller_selection, t[1])
                      inside == /\ b.rmin <= t[2] /\ t[2] <= b.rmax
                                /\ b.cmin <= t[3] /\ t[3] <= b.cmax
                  IN  Out(t) = IF inside
                               THEN caller_grid.cell[
                                        Turned(call.x, b.rmin, b.cmin, b.rmax - b.rmin + 1,
                                               t[2] - b.rmin, t[3] - b.cmin)]
                               ELSE In(t)
        /\ (caller_grid = Scenario1234
            /\ caller_selection = Stack(1, 2, 2, Cells3(1, 2, 2))
            /\ call.x = 1)
              => Layer(ret.value, 0) = AsGrid(<<<<2, 4>>, <<1, 3>>>>)

\* a quarter turn of a 2x2 square inside a grid that is not square
C9_Witness ==
    /\ Returned("rotate")
    /\ call.x = 1
    /\ ret.raised = "none"
    /\ caller_grid.rows # caller_grid.cols
    /\ \E l \in 0 .. caller_selection.n - 1 :
          /\ SquareInside(l)
          /\ SquareBounds(caller_selection, l).rmax > SquareBounds(caller_selection, l).rmin
          /\ Layer(ret.value, l) # caller_grid

ColorOps ==
    {"color", "fill_with_color", "fill_bounding_rectangle_with_color",
     "fill_bounding_square_with_color"}

\* C10: an out-of-range parameter never makes an operator fail: rotate with
\* num_rotations outside {1,2,3} returns the stack of unrotated copies of the
\* grid, and the colour-taking operators given a colour outside the valid
\* range return the unmodified grid, without raising.
C10_NoRaise ==
    /\ (Returned("rotate") /\ call.x \notin 1 .. 3) =>
          /\ ret.raised = "none"
          /\ ret.value = create_grid3d(caller_grid, caller_selection)
    /\ (pc = "returned" /\ call.op \in ColorOps /\ call.x \notin 0 .. 200) =>
          /\ ret.raised = "none"
          /\ \/ ret.value = caller_grid
             \/ ret.value = create_grid3d(caller_grid, caller_selection)

\* ------------------------------------------------------------------------
HorizontalExtensions == {"mirror_horizontally", "duplicate_horizontally"}

VerticalExtensions == {"mirror_vertically", "duplicate_vertically"}

\* the returned call is an extension whose mask is longer than the limit
Rejected ==
    /\ pc = "returned"
    /\ \/ call.op \in HorizontalExtensions /\ caller_selection.cols > 15
       \/ call.op \in VerticalExtensions /\ caller_selection.rows > 15

\* C11: mirror_horizontally and duplicate_horizontally on a mask of more than
\* 15 columns, and mirror_vertically and duplicate_vertically on a mask of
\* more than 15 rows, raise nothing and return the input grid, every cell
\* and the shape unchanged.
C11_ExtentRejected ==
    Rejected => /\ ret.raised = "none"
                /\ ret.value.rows = caller_grid.rows
                /\ ret.value.cols = caller_grid.cols
                /\ \A p \in Cells2(caller_grid.rows, caller_grid.cols) :
                      ret.value.cell[p] = caller_grid.cell[p]

C11_Witness ==
    /\ Rejected
    /\ call.op = "mirror_vertically"
    /\ caller_selection.rows = 16
    /\ \E t \in DOMAIN caller_selection.cell : Selected(t)
    /\ ret.value = caller_grid

\* ------------------------------------------------------------------------
\* C12: every operator returns, for every input, a 3D array with one layer
\* per layer of the selection mask, the rejected calls included.
C12_ReturnsStack ==
    pc = "returned" => /\ ret.raised = "none"
                       /\ Is3D(ret.value)
                       /\ ret.value.n = caller_selection.n

\* ------------------------------------------------------------------------
\* the returned value is a stack of one layer per mask layer, R rows, C columns
StackOf(R, C) ==
    /\ ret.raised = "none"
    /\ Is3D(ret.value)
    /\ ret.value.n = caller_selection.n
    /\ ret.value.rows = R
    /\ ret.value.cols = C

Layers == 0 .. caller_selection.n - 1

Rows == 0 .. caller_selection.rows - 1

Cols == 0 .. caller_selection.cols - 1

ImagesDown(l, h) ==
    {q \in Cells2(caller_selection.rows, caller_selection.cols) :
        \E p \in LayerCells(caller_selection, l) :
            p[2] = q[2] /\ (q[1] - p[1]) % h = 0}

ImagesAcross(l, w) ==
    {q \in Cells2(caller_selection.rows, caller_selection.cols) :
        \E p \in LayerCells(caller_selection, l) :
            p[1] = q[1] /\ (q[2] - p[2]) % w = 0}

\* n is the ceiling of a / b
IsCeiling(n, a, b) == n * b >= a /\ (n - 1) * b < a

\* C17: copy_paste_vertically tiles completely.  For each layer with a
\* non-empty mask whose first and last selected rows are f and l (period
\* h = l - f + 1), every cell (r + k*h, c) of the grid, (r, c) selected and k
\* any integer, holds grid[r, c], and every other cell keeps its input value;
\* the pastes number ceil(f / h) upwards and ceil((rows - l - 1) / h)
\* downwards.  copy_paste_horizontally does the same with columns.
C17_Tiling ==
    /\ Returned("copy_paste_vertically") =>
          /\ StackOf(caller_grid.rows, caller_grid.cols)
          /\ \A l \in Layers :
                LET S == LayerCells(caller_selection, l)
                    f == SetMin({p[1] : p \in S})
                    lst == SetMax({p[1] : p \in S})
                    h == lst - f + 1
                IN  S # {} =>
                      /\ \A p \in S : \A q \in ImagesDown(l, h) :
                            (q[2] = p[2] /\ (q[1] - p[1]) % h = 0)
                                => Out(<<l, q[1], q[2]>>) = caller_grid.cell[p]
                      /\ \A q \in Cells2(caller_grid.rows, caller_grid.cols)
                                    \ ImagesDown(l, h) :
                            Out(<<l, q[1], q[2]>>) = caller_grid.cell[q]
                      /\ IsCeiling(factor_up(caller_selection, l), f, h)
                      /\ IsCeiling(factor_down(caller_selection, l),
                                   caller_grid.rows - lst - 1, h)
    /\ Returned("copy_paste_horizontally") =>
          /\ StackOf(caller_grid.rows, caller_grid.cols)
          /\ \A l \in Layers :
                LET S == LayerCells(caller_selection, l)
                    f == SetMin({p[2] : p \in S})
                    lst == SetMax({p[2] : p \in S})
                    w == lst - f + 1
                IN  S # {} =>
                      /\ \A p \in S : \A q \in ImagesAcross(l, w) :
                            (q[1] = p[1] /\ (q[2] - p[2]) % w = 0)
                                => Out(<<l, q[1], q[2]>>) = caller_grid.cell[p]
                      /\ \A q \in Cells2(caller_grid.rows, caller_grid.cols)
                                    \ ImagesAcross(l, w) :
                            Out(<<l, q[1], q[2]>>) = caller_grid.cell[q]
                      /\ IsCeiling(factor_left(caller_selection, l), f, w)
                      /\ IsCeiling(factor_right(caller_selection, l),
                                   caller_grid.cols - lst - 1, w)

\* rows 1 and 3 of five selected (period 3): the tile above fits only with
\* its last row, the tile below only with its first, and both are pasted
C17_Witness ==
    /\ Returned("copy_paste_vertically")
    /\ caller_grid = Labelled(5, 1)
    /\ caller_selection = Stack(1, 5, 1, {<<0, 1, 0>>, <<0, 3, 0>>})
    /\ Out(<<0, 0, 0>>) = 4
    /\ Out(<<0, 4, 0>>) = 2
    /\ Out(<<0, 2, 0>>) = 3

\* ------------------------------------------------------------------------
\* one horizontal or vertical step apart
Step(p, q) ==
    \/ p[1] = q[1] /\ p[2] - q[2] \in {-1, 1}
    \/ p[2] = q[2] /\ p[1] - q[1] \in {-1, 1}

OnBorder(p) ==
    \/ p[1] = 0 \/ p[1] = caller_selection.rows - 1
    \/ p[2] = 0 \/ p[2] = caller_selection.cols - 1

\* the cells of layer l that are not selected
Free(l) ==
    Cells2(caller_selection.rows, caller_selection.cols) \ LayerCells(caller_selection, l)

\* p cannot reach the border by steps through non-selected cells: p lies in
\* a set of non-selected cells that no step leaves and that misses the border
Enclosed(l, p) ==
    \E K \in SUBSET Free(l) :
        /\ p \in K
        /\ \A a \in K : ~OnBorder(a) /\ \A b \in Free(l) : Step(a, b) => b \in K

\* C18: fill_with_color with a valid colour recolours, in each layer, exactly
\* the cells that are not selected and cannot reach the grid border by
\* horizontal/vertical steps through non-selected cells; every other cell
\* keeps its input value.
C18_FillHoles ==
    (Returned("fill_with_color") /\ call.x \in 0 .. 200) =>
        /\ StackOf(caller_grid.rows, caller_grid.cols)
        /\ \A t \in DOMAIN ret.value.cell :
              Out(t) = IF Enclosed(t[1], <<t[2], t[3]>>) THEN call.x ELSE In(t)

\* the four neighbours of the centre selected: the centre is a hole although
\* the corners touch it diagonally
C18_Witness ==
    /\ Returned("fill_with_color")
    /\ call.x = 7
    /\ caller_selection =
          Stack(1, 3, 3, {<<0, 0, 1>>, <<0, 1, 0>>, <<0, 1, 2>>, <<0, 2, 1>>})
    /\ Out(<<0, 1, 1>>) = 7
    /\ In(<<0, 1, 1>>) # 7
    /\ Out(<<0, 0, 0>>) = In(<<0, 0, 0>>)

\* cell (r, c) lies between the first and last selected row and column of layer l
InRectangle(l, r, c) ==
    LET S == LayerCells(caller_selection, l)
    IN  /\ \E p \in S : p[1] <= r
        /\ \E p \in S : p[1] >= r
        /\ \E p \in S : p[2] <= c
        /\ \E p \in S : p[2] >= c

\* C19: crop returns layers of the shape of the grid in which every cell
\* outside the bounding rectangle of the layer's mask is -1 and every cell
\* inside it, selected or not, keeps its input value.
C19_Crop ==
    Returned("crop") =>
        /\ StackOf(caller_grid.rows, caller_grid.cols)
        /\ \A t \in DOMAIN ret.value.cell :
              Out(t) = IF InRectangle(t[1], t[2], t[3]) THEN In(t) ELSE -1

\* two opposite corners of a rectangle selected: an unselected cell inside
\* keeps its value, a cell outside becomes -1
C19_Witness ==
    /\ Returned("crop")
    /\ \E t \in DOMAIN ret.value.cell :
          ~Selected(t) /\ InRectangle(t[1], t[2], t[3]) /\ Out(t) = In(t) /\ In(t) > 0
    /\ \E t \in DOMAIN ret.value.cell :
          ~InRectangle(t[1], t[2], t[3]) /\ Out(t) = -1

\* ------------------------------------------------------------------------
DiagonalOps == {"flip_main_diagonal", "flip_anti_diagonal"}

\* the cell whose input value the mirror brings to (i, j) of the n x n square
\* at (r0, c0)
Mirrored(name, r0, c0, n, i, j) ==
    IF name = "flip_main_diagonal" THEN <<r0 + j, c0 + i>>
    ELSE <<r0 + n - 1 - j, c0 + n - 1 - i>>

\* C20: for each layer whose n x n bounding square starts at (r0, c0) and
\* lies inside the grid, flip_main_diagonal gives output[r0+i, c0+j] =
\* grid[r0+j, c0+i] and flip_anti_diagonal gives output[r0+i, c0+j] =
\* grid[r0+n-1-j, c0+n-1-i] for 0 <= i, j < n, the values read being the
\* input values; the cells outside the square are unchanged, and each of the
\* two applied twice with the same mask restores the grid.
C20_DiagonalMirrors ==
    (pc = "returned" /\ call.op \in DiagonalOps) =>
        /\ (\A l \in Layers : SquareInside(l)) => ret.raised = "none"
        /\ ret.raised = "none" =>
              /\ SameShape
              /\ \A t \in DOMAIN ret.value.cell :
                    LET b == SquareBounds(caller_selection, t[1])
                        n == b.rmax - b.rmin + 1
                        i == t[2] - b.rmin
                        j == t[3] - b.cmin
                    IN  SquareInside(t[1]) =>
                          Out(t) = IF 0 <= i /\ i < n /\ 0 <= j /\ j < n
                                   THEN caller_grid.cell[
                                            Mirrored(call.op, b.rmin, b.cmin, n, i, j)]
                                   ELSE In(t)
              /\ (ncalls = 2 /\ SquareInside(kept)) => Layer(ret.value, kept) = orig

\* the second main-diagonal mirror of a square of side 2 or more, whose first
\* mirror changed the grid
C20_Witness ==
    /\ Returned("flip_main_diagonal")
    /\ ret.raised = "none"
    /\ ncalls = 2
    /\ SquareInside(kept)
    /\ caller_grid # orig
    /\ Layer(ret.value, kept) = orig

\* ------------------------------------------------------------------------
\* the operator of call c applied to a grid and a mask stack
Apply(c, grid, selection) ==
    CASE c.op = "flipv" -> flipv(grid, selection)
      [] c.op = "fliph" -> fliph(grid, selection)
      [] c.op = "delete" -> delete(grid, selection)
      [] c.op = "rotate" -> rotate(grid, selection, c.x)
      [] c.op = "crop" -> crop(grid, selection)
      [] c.op = "color" -> color(grid, selection, c.x)
      [] c.op = "fill_with_color" -> fill_with_color(grid, selection, c.x)
      [] c.op = "flip_main_diagonal" -> flip_main_diagonal(grid, selection)
      [] c.op = "flip_anti_diagonal" -> flip_anti_diagonal(grid, selection)
      [] c.op = "copy_paste" -> copy_paste(grid, selection, c.x, c.y)
      [] c.op = "copy_sum" -> copy_sum(grid, selection, c.x, c.y)
      [] c.op = "cut_paste" -> cut_paste(grid, selection, c.x, c.y)
      [] c.op = "cut_sum" -> cut_sum(grid, selection, c.x, c.y)
      [] c.op = "change_background_color" -> change_background_color(grid, selection, c.x)
      [] c.op = "change_selection_to_background_color" ->
             change_selection_to_background_color(grid, selection)
      [] c.op = "vupscale" -> vupscale(grid, selection, c.x)
      [] c.op = "hupscale" -> hupscale(grid, selection, c.x)
      [] c.op = "fill_bounding_rectangle_with_color" ->
             fill_bounding_rectangle_with_color(grid, selection, c.x)
      [] c.op = "fill_bounding_square_with_color" ->
             fill_bounding_square_with_color(grid, selection, c.x)
      [] c.op = "mirror_horizontally" -> mirror_horizontally(grid, selection)
      [] c.op = "mirror_vertically" -> mirror_vertically(grid, selection)
      [] c.op = "duplicate_horizontally" -> duplicate_horizontally(grid, selection)
      [] c.op = "duplicate_vertically" -> duplicate_vertically(grid, selection)
      [] c.op = "copy_paste_vertically" -> copy_paste_vertically(grid, selection)
      [] OTHER -> copy_paste_horizontally(grid, selection)

\* what the returned call yields for the stack made of mask layer l alone
Alone(l) == Apply(call, caller_grid, expand_dims(Layer(caller_selection, l)))

\* C14: for every operator, output layer i is determined by the grid, mask
\* layer i and the scalar parameters alone: the call on a stack and the call
\* on the stack holding only layer i of it give the same output for that layer.
C14_LayerIndependence ==
    pc = "returned" =>
        \A l \in Layers :
            /\ Alone(l).raised = ret.raised
            /\ IF Is3D(ret.value) /\ Is3D(Alone(l).value)
               THEN Layer(ret.value, l) = Layer(Alone(l).value, 0)
               ELSE ret.value = Alone(l).value

InSquare(l, r, c) ==
    LET b == SquareBounds(caller_selection, l)
    IN  b.rmin <= r /\ r <= b.rmax /\ b.cmin <= c /\ c <= b.cmax

\* C21: fill_bounding_rectangle_with_color (resp. fill_bounding_square_with_color)
\* with a valid colour sets to that colour exactly the cells inside the
\* bounding rectangle (resp. square) of the layer's mask that are not
\* selected; the selected cells and the cells outside the region keep their
\* input values.
C21_FillBounding ==
    /\ (Returned("fill_bounding_rectangle_with_color") /\ call.x \in 0 .. 200) =>
          /\ StackOf(caller_grid.rows, caller_grid.cols)
          /\ \A t \in DOMAIN ret.value.cell :
                Out(t) = IF InRectangle(t[1], t[2], t[3]) /\ ~Selected(t)
                         THEN call.x ELSE In(t)
    /\ (Returned("fill_bounding_square_with_color") /\ call.x \in 0 .. 200) =>
          /\ StackOf(caller_grid.rows, caller_grid.cols)
          /\ \A t \in DOMAIN ret.value.cell :
                Out(t) = IF InSquare(t[1], t[2], t[3]) /\ ~Selected(t)
                         THEN call.x ELSE In(t)

\* two corners of a rectangle selected and kept, a cell between them painted,
\* a cell outside the rectangle kept
C21_Witness ==
    /\ Returned("fill_bounding_rectangle_with_color")
    /\ call.x = 7
    /\ \E t \in DOMAIN ret.value.cell :
          Selected(t) /\ In(t) \notin {0, 7} /\ Out(t) = In(t)
    /\ \E t \in DOMAIN ret.value.cell :
          ~Selected(t) /\ InRectangle(t[1], t[2], t[3]) /\ In(t) # 7 /\ Out(t) = 7
    /\ \E t \in DOMAIN ret.value.cell :
          ~InRectangle(t[1], t[2], t[3]) /\ In(t) \notin {0, 7} /\ Out(t) = In(t)

\* ------------------------------------------------------------------------
\* C22: flipv is local to the bounding rectangle: for a layer whose mask has
\* bounding rectangle rows rmin..rmax and columns cmin..cmax, output[r, c] =
\* grid[rmin + rmax - r, c] inside the rectangle and output[r, c] = grid[r, c]
\* outside it, wherever the rectangle lies; fliph does the same with columns
\* (output[r, c] = grid[r, cmin + cmax - c]).
C22_FlipLocal ==
    /\ Returned("flipv") =>
          /\ StackOf(caller_grid.rows, caller_grid.cols)
          /\ \A t \in DOMAIN ret.value.cell :
                LET S == LayerCells(caller_selection, t[1])
                    rmin == SetMin({p[1] : p \in S})
                    rmax == SetMax({p[1] : p \in S})
                IN  Out(t) = IF InRectangle(t[1], t[2], t[3])
                             THEN caller_grid.cell[<<rmin + rmax - t[2], t[3]>>]
                             ELSE In(t)
    /\ Returned("fliph") =>
          /\ StackOf(caller_grid.rows, caller_grid.cols)
          /\ \A t \in DOMAIN ret.value.cell :
                LET S == LayerCells(caller_selection, t[1])
                    cmin == SetMin({p[2] : p \in S})
                    cmax == SetMax({p[2] : p \in S})
                IN  Out(t) = IF InRectangle(t[1], t[2], t[3])
                             THEN caller_grid.cell[<<t[2], cmin + cmax - t[3]>>]
                             ELSE In(t)

\* a rectangle of two columns at the left edge of three: its columns are
\* exchanged with each other, not with the third column
C22_Witness ==
    /\ Returned("fliph")
    /\ caller_selection = Stack(1, 2, 3, {<<0, 0, 0>>, <<0, 1, 1>>})
    /\ caller_grid = Labelled(2, 3)
    /\ Out(<<0, 0, 0>>) = caller_grid.cell[<<0, 1>>]
    /\ Out(<<0, 0, 1>>) = caller_grid.cell[<<0, 0>>]
    /\ Out(<<0, 0, 2>>) = caller_grid.cell[<<0, 2>>]

\* ------------------------------------------------------------------------
\* C23: cut_sum first zeroes every selected cell and then adds the moved
\* values: a selected cell that is an in-bounds destination holds only the
\* moved source value, a non-selected destination holds its input value plus
\* the moved value, a selected cell that is no destination holds 0, and every
\* other cell keeps its input value.
C23_CutSum ==
    Returned("cut_sum") =>
        /\ StackOf(caller_grid.rows, caller_grid.cols)
        /\ \A t \in DOMAIN ret.value.cell :
              LET q == <<t[2], t[3]>>
                  destination == Sources(t[1], q) # {}
                  moved == caller_grid.cell[Source(t[1], q)]
              IN  Out(t) = CASE Selected(t) /\ destination -> moved
                             [] ~Selected(t) /\ destination -> In(t) + moved
                             [] Selected(t) /\ ~destination -> 0
                             [] OTHER -> In(t)

\* two selected cells side by side moved one column: the second is selected
\* and a destination and holds the value of the first alone, the first holds
\* 0, the cell after them holds its own value plus the second's
C23_Witness ==
    /\ Returned("cut_sum")
    /\ call.x = 1 /\ call.y = 0
    /\ caller_grid = Labelled(2, 3)
    /\ caller_selection = Stack(1, 2, 3, {<<0, 0, 0>>, <<0, 0, 1>>})
    /\ Out(<<0, 0, 0>>) = 0
    /\ Out(<<0, 0, 1>>) = 1
    /\ Out(<<0, 0, 2>>) = 5
    /\ Out(<<0, 1, 0>>) = In(<<0, 1, 0>>)

\* ------------------------------------------------------------------------
\* layer l of the returned stack holds, at every image of a selected cell
\* along the rows (resp. columns), the input value of that cell
TiledDown(l) ==
    LET S == LayerCells(caller_selection, l)
        h == SetMax({p[1] : p \in S}) - SetMin({p[1] : p \in S}) + 1
    IN  \A p \in S : \A r \in Rows :
            (r - p[1]) % h = 0 => Out(<<l, r, p[2]>>) = caller_grid.cell[p]

TiledAcross(l) ==
    LET S == LayerCells(caller_selection, l)
        w == SetMax({p[2] : p \in S}) - SetMin({p[2] : p \in S}) + 1
    IN  \A p \in S : \A c \in Cols :
            (c - p[2]) % w = 0 => Out(<<l, p[1], c>>) = caller_grid.cell[p]

\* C24: in copy_paste_vertically and copy_paste_horizontally a layer whose
\* mask is empty is returned equal to the input grid, while the other layers
\* of the same call are still tiled.
C24_EmptyLayer ==
    (pc = "returned" /\ call.op \in {"copy_paste_vertically", "copy_paste_horizontally"}
        /\ \E l \in Layers : LayerCells(caller_selection, l) = {}) =>
        /\ StackOf(caller_grid.rows, caller_grid.cols)
        /\ \A l \in Layers :
              IF LayerCells(caller_selection, l) = {}
              THEN Layer(ret.value, l) = caller_grid
              ELSE IF call.op = "copy_paste_vertically" THEN TiledDown(l)
              ELSE TiledAcross(l)

\* the first layer empty and returned as the grid, the second layer tiled
\* from row 1 over all five rows
C24_Witness ==
    /\ Returned("copy_paste_vertically")
    /\ caller_grid = Labelled(5, 1)
    /\ caller_selection = Stack(2, 5, 1, {<<1, 1, 0>>})
    /\ Layer(ret.value, 0) = caller_grid
    /\ \A r \in 0 .. 4 : Out(<<1, r, 0>>) = 2

\* ------------------------------------------------------------------------
\* the window w has length extent and lies inside the upscaled extent
WindowInside(w, extent, scale_factor) ==
    /\ w.lower_bound - w.upper_bound = extent
    /\ 0 <= w.upper_bound
    /\ w.lower_bound <= extent * scale_factor

\* C25: in vupscale and hupscale, for every layer, the window
\* [upper_bound, lower_bound) cut out of the upscaled array has integer
\* bounds, has length exactly the original extent and satisfies
\* 0 <= upper_bound and lower_bound <= extent * scale_factor, both after the
\* first centroid placement and after the second pass.
C25_WindowBounds ==
    (pc = "returned" /\ call.op \in {"vupscale", "hupscale"}) =>
        \A l \in Layers : LayerCells(caller_selection, l) # {} =>
            LET vertical == call.op = "vupscale"
                extent == IF vertical THEN caller_selection.rows
                          ELSE caller_selection.cols
                first == IF vertical
                         THEN vupscale_first_window(caller_selection, call.x, l)
                         ELSE hupscale_first_window(caller_selection, call.x, l)
                second == IF vertical
                          THEN vupscale_window(caller_selection, call.x, l)
                          ELSE hupscale_window(caller_selection, call.x, l)
            IN  /\ WindowInside(first, extent, call.x)
                /\ second.raised = "none"
                /\ WindowInside(second.value, extent, call.x)

\* ------------------------------------------------------------------------
\* the position in the input grid that the upscaled array holds at window
\* position (r, c) of layer l, the window starting at upper_bound
WindowSource(l, r, c) ==
    IF call.op = "vupscale"
    THEN <<(vupscale_window(caller_selection, call.x, l).value.upper_bound + r)
               \div call.x, c>>
    ELSE <<r, (hupscale_window(caller_selection, call.x, l).value.upper_bound + c)
               \div call.x>>

\* C26: in vupscale and hupscale, every cell that is neither selected in the
\* original mask nor true in the recentred window mask keeps its input value;
\* every originally selected cell that is not true in the window mask is 0;
\* every cell that is true in the window mask holds the value of the upscaled
\* grid at the corresponding window position.
C26_UpscaleFrame ==
    (pc = "returned" /\ call.op \in {"vupscale", "hupscale"} /\ ret.raised = "none") =>
        /\ StackOf(caller_grid.rows, caller_grid.cols)
        /\ \A t \in DOMAIN ret.value.cell :
              LET source == WindowSource(t[1], t[2], t[3])
                  in_window == caller_selection.cell[<<t[1], source[1], source[2]>>]
              IN  Out(t) = IF in_window THEN caller_grid.cell[source]
                           ELSE IF Selected(t) THEN 0
                           ELSE In(t)

\* hupscale by 2 of 1 2 3: the layer selecting the two ends gives 1 1 0 (the
\* last cell selected and outside the window mask), the layer selecting the
\* middle gives 1 2 2 (the first cell untouched)
C26_Witness ==
    /\ Returned("hupscale") /\ call.x = 2 /\ ret.raised = "none"
    /\ caller_grid = Labelled(1, 3)
    /\ caller_selection = Stack(2, 1, 3, {<<0, 0, 0>>, <<0, 0, 2>>, <<1, 0, 1>>})
    /\ Out(<<0, 0, 0>>) = 1 /\ Out(<<0, 0, 1>>) = 1 /\ Out(<<0, 0, 2>>) = 0
    /\ Out(<<1, 0, 0>>) = 1 /\ Out(<<1, 0, 1>>) = 2 /\ Out(<<1, 0, 2>>) = 2

\* ------------------------------------------------------------------------
Reverse(s) == [i \in 1 .. Len(s) |-> s[Len(s) + 1 - i]]

\* the outcome of the call when the selected cells are processed last to first
ProcessedBackwards ==
    LET grid_3d == create_grid3d(caller_grid, caller_selection)
        old == Reverse(surviving(grid_3d, caller_selection, call.x, call.y))
        new == [i \in 1 .. Len(old) |-> shifted(old[i], call.x, call.y)]
        values == [i \in 1 .. Len(old) |-> grid_3d.cell[old[i]]]
        cleared == clear_at(grid_3d, where(caller_selection), 0)
    IN  CASE call.op = "copy_paste" -> assign_at(grid_3d, new, values)
          [] call.op = "copy_sum" -> add_at(grid_3d, new, values)
          [] call.op = "cut_paste" -> assign_at(cleared, new, values)
          [] call.op = "cut_sum" -> add_at(cleared, new, values)

\* C27: in each of copy_paste, copy_sum, cut_paste and cut_sum, two distinct
\* selected cells of the same layer never have the same destination; hence no
\* destination is written twice within a call and the output does not depend
\* on the order in which the selected cells are processed.
C27_OneWrite ==
    (pc = "returned" /\ call.op \in ShiftOps) =>
        LET old == where(caller_selection)
            new == [i \in 1 .. Len(old) |-> shifted(old[i], call.x, call.y)]
        IN  /\ \A i, j \in 1 .. Len(old) : i # j => new[i] # new[j]
            /\ \A t \in DOMAIN caller_selection.cell :
                  Cardinality({i \in 1 .. Len(old) : new[i] = t}) <= 1
            /\ ret = ProcessedBackwards

\* copy_paste by one column of two adjacent selected cells: the destination of
\* the first is the second, and 1 2 3 becomes 1 1 2 in either order
C27_Witness ==
    /\ Returned("copy_paste") /\ call.x = 1 /\ call.y = 0
    /\ caller_grid = Labelled(2, 3)
    /\ caller_selection = Stack(1, 2, 3, {<<0, 0, 0>>, <<0, 0, 1>>})
    /\ Out(<<0, 0, 0>>) = 1 /\ Out(<<0, 0, 1>>) = 1 /\ Out(<<0, 0, 2>>) = 2
    /\ ret = ProcessedBackwards

\* ------------------------------------------------------------------------
\* C28: copy_paste, cut_paste and cut_sum with shift (0,0) return every layer
\* equal to the input grid, for any grid and any mask.
C28_ZeroShift ==
    (pc = "returned" /\ call.op \in {"copy_paste", "cut_paste", "cut_sum"}
        /\ call.x = 0 /\ call.y = 0) =>
        /\ StackOf(caller_grid.rows, caller_grid.cols)
        /\ \A l \in Layers : Layer(ret.value, l) = caller_grid

\* cut_paste by (0,0) of two selected cells of the labelled grid
C28_Witness ==
    /\ Returned("cut_paste") /\ call.x = 0 /\ call.y = 0
    /\ caller_grid = Labelled(2, 3)
    /\ caller_selection = Stack(1, 2, 3, {<<0, 0, 0>>, <<0, 0, 1>>})
    /\ ret = Return(create_grid3d(caller_grid, caller_selection))
    /\ Out(<<0, 0, 0>>) = 1 /\ Out(<<0, 0, 1>>) = 2

\* ------------------------------------------------------------------------
\* C29: vupscale and hupscale with scale_factor = 1 return every layer equal
\* to the input grid, for any grid and any mask with at least one selected
\* cell in each layer: the window is forced to the whole original extent in
\* the first pass and the second pass leaves it there.
C29_UnitScale ==
    (pc = "returned" /\ call.op \in {"vupscale", "hupscale"} /\ call.x = 1
        /\ \A l \in Layers : LayerCells(caller_selection, l) # {}) =>
        LET vertical == call.op = "vupscale"
            whole == [lower_bound |-> IF vertical THEN caller_selection.rows
                                      ELSE caller_selection.cols,
                      upper_bound |-> 0]
        IN  /\ \A l \in Layers :
                  IF vertical
                  THEN /\ vupscale_first_window(caller_selection, 1, l) = whole
                       /\ vupscale_window(caller_selection, 1, l) = Return(whole)
                  ELSE /\ hupscale_first_window(caller_selection, 1, l) = whole
                       /\ hupscale_window(caller_selection, 1, l) = Return(whole)
            /\ StackOf(caller_grid.rows, caller_grid.cols)
            /\ \A l \in Layers : Layer(ret.value, l) = caller_grid

\* vupscale by 1 of the labelled column 1 2 3 with two non-empty layers
C29_Witness ==
    /\ Returned("vupscale") /\ call.x = 1
    /\ caller_grid = Labelled(3, 1)
    /\ caller_selection = Stack(2, 3, 1, {<<0, 0, 0>>, <<0, 2, 0>>, <<1, 1, 0>>})
    /\ ret = Return(create_grid3d(caller_grid, caller_selection))
    /\ Out(<<0, 2, 0>>) = 3 /\ Out(<<1, 1, 0>>) = 2

====
